---- MODULE Spec2Model ----
(***************************************************************************)
(* Item lifecycle and reference lists of the marketplace backend           *)
(* (server/routes/items.js, server/routes/admin.js, the users router and   *)
(* the Item / User schemas).  The database is two collections: items and   *)
(* users.  Every route handler is one action; the handlers whose requests  *)
(* are checked while overlapping (POST /:id/buy, PUT /:id/sold, the        *)
(* watchlist additions, POST /fix-all-items) are also given split at their *)
(* awaits.                                                                 *)
(***************************************************************************)
EXTENDS Integers, Sequences, FiniteSets, TLC

\* ---------------------------------------------------------------- bounds
\* requests taken in a run of each specification
MaxOps == 3
MaxRepairOps == 4
MaxFaultOps == 4
MaxConcOps == 4
MaxWatchOps == 3
MaxDistanceOps == 2
MaxSyncFaultOps == 3
MaxValidateOps == 3
MaxResellOps == 8
MaxRecoverOps == 3
MaxConcSoldOps == 3
MaxCreateOps == 2
MaxConcFixOps == 3
MaxListingsOps == 2
\* the longest stored activeListings array a run starts from
MaxStored == 3
MaxJsonOps == 2
MaxSweepOps == 4
MaxGhostOps == 2
MaxAdminOps == 3

\* ------------------------------------------------------------ vocabulary
Users == {"u1", "u2", "u3"}
UserOrder == <<"u1", "u2", "u3">>
Procs == {1, 2}
ItemOrder == <<1, 2>>
ItemIds == {1, 2}
NULL == "null"
DATE == "date"
Statuses == {"available", "sold", "pending", "unavailable"}
\* the id in a token that is still accepted while the users collection has no
\* document for it
Ghost == "u0"

VARIABLES items, users, reqs, resp, nextId, nops, mode

vars == <<items, users, reqs, resp, nextId, nops, mode>>

\* ------------------------------------------------------ array operators
Range(s) == {s[k] : k \in 1..Len(s)}

Count(s, x) == Cardinality({k \in 1..Len(s) : s[k] = x})

NoDup(s) == \A x \in Range(s) : Count(s, x) = 1

\* MongoDB $push
Push(s, x) == Append(s, x)

\* $addToSet behaving as $push
AddToSetAppends(s, x) == Append(s, x)

\* MongoDB $addToSet
AddToSet(s, x) == IF x \in Range(s) THEN s ELSE Append(s, x)

\* MongoDB $pull
Pull(s, x) == SelectSeq(s, LAMBDA y : y # x)

\* ------------------------------------------------------------- documents
NewUser == [activeListings |-> <<>>, watchlist |-> <<>>,
            boughtItems |-> <<>>, soldItems |-> <<>>]

NoDoc == [seller |-> NULL, buyer |-> NULL, status |-> "none", soldAt |-> NULL]

Idle == [pc |-> "idle", user |-> NULL, item |-> 0, doc |-> NoDoc]

\* data: the JSON body of an answer that carries a computed value
NoResp == [op |-> "none", user |-> NULL, item |-> 0, result |-> "none",
           fixedItems |-> 0, fixedRefs |-> 0, errors |-> 0, data |-> <<>>]

Resp(op, u, i, r) == [NoResp EXCEPT !.op = op, !.user = u, !.item = i, !.result = r]

\* Item.find(cond): the ids of the matching items, in _id order
Find(its, Cond(_)) ==
  SelectSeq(ItemOrder, LAMBDA k : k \in DOMAIN its /\ Cond(its[k]))

\* User.findByIdAndUpdate(u, update): no document, no update
UpdateUser(us, u, Upd(_)) ==
  IF u \in DOMAIN us THEN [us EXCEPT ![u] = Upd(us[u])] ELSE us

EmptyDb ==
  /\ items = <<>>
  /\ users = [u \in Users |-> NewUser]
  /\ reqs = [p \in Procs |-> Idle]
  /\ resp = [p \in Procs |-> NoResp]
  /\ nextId = 1
  /\ nops = 0

Init == EmptyDb /\ mode = "seq"

InitRepair == EmptyDb /\ mode = "repair"

InitConc == EmptyDb /\ mode = "conc"

InitFault == EmptyDb /\ mode = "fault"

InitWatch == EmptyDb /\ mode = "watch"

InitDistance == EmptyDb /\ mode = "distance"

InitSyncFault == EmptyDb /\ mode = "syncfault"

InitValidate == EmptyDb /\ mode = "validate"

InitResell == EmptyDb /\ mode = "resell"

InitRecover == EmptyDb /\ mode = "recover"

InitConcSold == EmptyDb /\ mode = "concsold"

InitCreate == EmptyDb /\ mode = "create"

InitConcFix == EmptyDb /\ mode = "concfix"

InitJson == EmptyDb /\ mode = "json"

InitSweep == EmptyDb /\ mode = "sweep"

InitGhost == EmptyDb /\ mode = "ghost"

InitAdmin == EmptyDb /\ mode = "admin"

\* How requests are scheduled in a run: one at a time ("seq", "repair",
\* "fault") or overlapping ("conc", "watch"); and how many are taken.
Overlapping == {"conc", "watch", "concsold", "concfix"}

Limit ==
  CASE mode = "seq" -> MaxOps
    [] mode = "repair" -> MaxRepairOps
    [] mode = "fault" -> MaxFaultOps
    [] mode = "conc" -> MaxConcOps
    [] mode = "watch" -> MaxWatchOps
    [] mode = "distance" -> MaxDistanceOps
    [] mode = "syncfault" -> MaxSyncFaultOps
    [] mode = "validate" -> MaxValidateOps
    [] mode = "resell" -> MaxResellOps
    [] mode = "recover" -> MaxRecoverOps
    [] mode = "concsold" -> MaxConcSoldOps
    [] mode = "create" -> MaxCreateOps
    [] mode = "concfix" -> MaxConcFixOps
    [] mode = "listings" -> MaxListingsOps
    [] mode = "json" -> MaxJsonOps
    [] mode = "sweep" -> MaxSweepOps
    [] mode = "ghost" -> MaxGhostOps
    [] mode = "admin" -> MaxAdminOps

\* A request arrives on process p.  Sequentially, every handler runs to
\* completion on process 1 before the next request is taken; concurrently, a
\* process takes a request whenever it is idle.
Begin(p) ==
  /\ reqs[p].pc = "idle"
  /\ nops < Limit
  /\ mode \notin Overlapping => p = 1 /\ \A q \in Procs : reqs[q].pc = "idle"
  /\ nops' = nops + 1
  /\ mode' = mode

\* res.json / res.status(..).json
Answer(p, r) == resp' = [resp EXCEPT ![p] = r]

\* ------------------------------------------------------ POST / (create)
\* the enum of the category path, and the validator's isIn list
Categories == {"Books", "Notes", "Stationary", "Clothes & Costumes", "Art",
               "Sports Accessories", "Devices"}

\* upload.array('photos', 4): the most files multer lets through
MaxPhotos == 4

\* the fewest photos the second router's create accepts
MinPhotosSecond == 3

\* What a create request carries: the number of uploaded photos, the form
\* fields category and workingStatus (NULL when absent), and, since req.body
\* is spread into the new document before seller and status are set, buyer
\* and soldAt if the client sends them.
\* bodies that carry lifecycle fields on an otherwise plain form
CreateBodies ==
  [buyer : {NULL, "u2"}, soldAt : {NULL, DATE}, category : {"Books"},
   workingStatus : {NULL}, photos : {MinPhotosSecond}]

\* the forms a client can send: every category, with and without
\* workingStatus, and from no photo to one more than multer lets through
FormBodies ==
  [buyer : {NULL}, soldAt : {NULL}, category : Categories,
   workingStatus : {NULL, "Working"}, photos : 0..(MaxPhotos + 1)]

NewItem(u, body) ==
  [seller |-> u, buyer |-> body.buyer, status |-> "available", soldAt |-> body.soldAt]

\* the required function of the workingStatus path
WorkingStatusRequired(category) ==
  category = "Sports Accessories" \/ category = "Art" \/ category = "Devices"

\* item.save() runs the schema validators
SchemaValid(body) ==
  /\ body.category \in Categories
  /\ WorkingStatusRequired(body.category) => body.workingStatus # NULL

\* The first router's checks in the order they run: the multer wrapper, the
\* express-validator list, the two checks at the head of the handler, and
\* the schema validation of item.save().  All of them answer 400.
CreateValidate(body) ==
  IF body.photos > MaxPhotos THEN "UploadError"
  ELSE IF body.photos = 0 THEN "UploadError"
  ELSE IF body.category \notin Categories THEN "ValidationError"
  ELSE IF body.category = "Devices" /\ body.workingStatus = NULL
  THEN "ValidationError"
  ELSE IF body.photos < 1 THEN "ValidationError"
  ELSE IF ~SchemaValid(body) THEN "ValidationError"
  ELSE "ok"

Create(p, u, body) ==
  /\ Begin(p)
  /\ nextId \in ItemIds
  /\ LET id == nextId
         saved == (id :> NewItem(u, body)) @@ items
         v == CreateValidate(body)
     IN IF v # "ok"
        THEN /\ Answer(p, Resp("create", u, 0, v))
             /\ UNCHANGED <<items, users, nextId>>
        ELSE /\ IF u \in DOMAIN users
                THEN /\ items' = saved
                     /\ users' = UpdateUser(users, u,
                          LAMBDA d : [d EXCEPT !.activeListings = Push(@, id)])
                     /\ Answer(p, Resp("create", u, id, "ok"))
                ELSE /\ items' = items
                     /\ users' = users
                     /\ Answer(p, Resp("create", u, id, "NotFound"))
             /\ nextId' = nextId + 1
  /\ UNCHANGED reqs

\* ------------------------------------- POST / (create), the second router
\* multer in the route's middleware list, the photo count check of the
\* handler, and the schema validation of newItem.save(), whose error the
\* catch block answers with 500
CreateSecondValidate(body) ==
  IF body.photos > MaxPhotos THEN "UploadError"
  ELSE IF body.photos < MinPhotosSecond THEN "TooFewPhotos"
  ELSE IF ~SchemaValid(body) THEN "ServerError"
  ELSE "ok"

\* the item is saved; no user document is read or written
CreateSecond(p, u, body) ==
  /\ Begin(p)
  /\ nextId \in ItemIds
  /\ LET v == CreateSecondValidate(body)
     IN IF v # "ok"
        THEN /\ Answer(p, Resp("create", u, 0, v))
             /\ UNCHANGED <<items, nextId>>
        ELSE /\ items' = (nextId :> NewItem(u, body)) @@ items
             /\ nextId' = nextId + 1
             /\ Answer(p, Resp("create", u, nextId, "ok"))
  /\ UNCHANGED <<users, reqs>>

\* --------------------------------------------------------- POST /:id/buy
\* BuyValidate without the comparison of the seller with the requester
BuyValidateNoSelfCheck(its, us, u, i) ==
  IF i \notin DOMAIN its THEN "NotFound"
  ELSE IF its[i].status # "available" THEN "NotAvailable"
  ELSE IF its[i].seller \notin DOMAIN us THEN "ServerError"
  ELSE "ok"

\* The checks between Item.findById and User.findById.
BuyValidate(its, us, u, i) ==
  IF i \notin DOMAIN its THEN "NotFound"
  ELSE IF its[i].status # "available" THEN "NotAvailable"
  ELSE IF its[i].seller \notin DOMAIN us THEN "ServerError"
  ELSE IF its[i].seller = u THEN "SelfPurchase"
  ELSE "ok"

\* await Item.findById(..).populate('seller') and the checks that follow
BuyFindItem(p, u, i) ==
  /\ Begin(p)
  /\ LET v == BuyValidate(items, users, u, i)
     IN IF v = "ok"
        THEN /\ reqs' = [reqs EXCEPT ![p] =
                    [pc |-> "findBuyer", user |-> u, item |-> i, doc |-> items[i]]]
             /\ UNCHANGED resp
        ELSE /\ Answer(p, Resp("buy", u, i, v))
             /\ UNCHANGED reqs
  /\ UNCHANGED <<items, users, nextId>>

\* await User.findById(req.user.id); then the in-memory item is marked sold
BuyFindBuyer(p) ==
  /\ reqs[p].pc = "findBuyer"
  /\ IF reqs[p].user \in DOMAIN users
     THEN /\ reqs' = [reqs EXCEPT ![p].pc = "saveItem",
                                  ![p].doc.status = "sold",
                                  ![p].doc.buyer = reqs[p].user,
                                  ![p].doc.soldAt = DATE]
          /\ UNCHANGED resp
     ELSE /\ reqs' = [reqs EXCEPT ![p] = Idle]
          /\ Answer(p, Resp("buy", reqs[p].user, reqs[p].item, "NotFound"))
  /\ UNCHANGED <<items, users, nextId, nops, mode>>

\* await item.save(): the modified paths status, buyer, soldAt are written
SaveSold(it, doc) ==
  [it EXCEPT !.status = doc.status, !.buyer = doc.buyer, !.soldAt = doc.soldAt]

BuySaveItem(p) ==
  /\ reqs[p].pc = "saveItem"
  /\ reqs[p].item \in DOMAIN items
  /\ items' = [items EXCEPT ![reqs[p].item] = SaveSold(@, reqs[p].doc)]
  /\ reqs' = [reqs EXCEPT ![p].pc = "updateBuyer"]
  /\ UNCHANGED <<users, resp, nextId, nops, mode>>

\* buyer: $addToSet boughtItems, $pull watchlist
BuyerUpdate(d, i) ==
  [d EXCEPT !.boughtItems = AddToSet(@, i), !.watchlist = Pull(@, i)]

BuyUpdateBuyer(p) ==
  /\ reqs[p].pc = "updateBuyer"
  /\ users' = UpdateUser(users, reqs[p].doc.buyer,
                LAMBDA d : BuyerUpdate(d, reqs[p].item))
  /\ reqs' = [reqs EXCEPT ![p].pc = "updateSeller"]
  /\ UNCHANGED <<items, resp, nextId, nops, mode>>

\* seller: $addToSet soldItems, $pull activeListings
SellerUpdate(d, i) ==
  [d EXCEPT !.soldItems = AddToSet(@, i), !.activeListings = Pull(@, i)]

BuyUpdateSeller(p) ==
  /\ reqs[p].pc = "updateSeller"
  /\ users' = UpdateUser(users, reqs[p].doc.seller,
                LAMBDA d : SellerUpdate(d, reqs[p].item))
  /\ reqs' = [reqs EXCEPT ![p].pc = "respond"]
  /\ UNCHANGED <<items, resp, nextId, nops, mode>>

\* await Item.findById(item._id).populate(..); res.json
BuyRespond(p) ==
  /\ reqs[p].pc = "respond"
  /\ Answer(p, Resp("buy", reqs[p].user, reqs[p].item, "ok"))
  /\ reqs' = [reqs EXCEPT ![p] = Idle]
  /\ UNCHANGED <<items, users, nextId, nops, mode>>

\* An awaited database call rejects: the catch block answers 500 and nothing
\* already written is undone.
BuyFail(p) ==
  /\ reqs[p].pc \in {"saveItem", "updateBuyer", "updateSeller", "respond"}
  /\ Answer(p, Resp("buy", reqs[p].user, reqs[p].item, "ServerError"))
  /\ reqs' = [reqs EXCEPT ![p] = Idle]
  /\ UNCHANGED <<items, users, nextId, nops, mode>>

\* ---------------------------------------------- POST /:id/watchlist (add)
WatchAdd(p, u, i) ==
  /\ Begin(p)
  /\ IF u \notin DOMAIN users
     THEN /\ Answer(p, Resp("watch", u, i, "ServerError"))
          /\ UNCHANGED users
     ELSE IF i \in Range(users[u].watchlist)
     THEN /\ Answer(p, Resp("watch", u, i, "AlreadyInWatchlist"))
          /\ UNCHANGED users
     ELSE /\ users' = [users EXCEPT ![u].watchlist = Push(@, i)]
          /\ Answer(p, Resp("watch", u, i, "ok"))
  /\ UNCHANGED <<items, reqs, nextId>>

\* The same handler split at its awaits.  User.findById and the includes
\* test on the fetched document:
WatchFind(p, u, i) ==
  /\ Begin(p)
  /\ IF u \notin DOMAIN users
     THEN /\ Answer(p, Resp("watch", u, i, "ServerError"))
          /\ UNCHANGED reqs
     ELSE IF i \in Range(users[u].watchlist)
     THEN /\ Answer(p, Resp("watch", u, i, "AlreadyInWatchlist"))
          /\ UNCHANGED reqs
     ELSE /\ reqs' = [reqs EXCEPT ![p] =
                 [pc |-> "watchSave", user |-> u, item |-> i, doc |-> NoDoc]]
          /\ UNCHANGED resp
  /\ UNCHANGED <<items, users, nextId>>

\* POST /watchlist/:itemId of the users router: the same test, and an id
\* already present is answered with the watchlist as it is
UserWatchFind(p, u, i) ==
  /\ Begin(p)
  /\ IF u \notin DOMAIN users
     THEN /\ Answer(p, Resp("watch", u, i, "ServerError"))
          /\ UNCHANGED reqs
     ELSE IF i \in Range(users[u].watchlist)
     THEN /\ Answer(p, Resp("watch", u, i, "ok"))
          /\ UNCHANGED reqs
     ELSE /\ reqs' = [reqs EXCEPT ![p] =
                 [pc |-> "watchSave", user |-> u, item |-> i, doc |-> NoDoc]]
          /\ UNCHANGED resp
  /\ UNCHANGED <<items, users, nextId>>

\* user.watchlist.push(id); await user.save(): the push on the document is
\* written as a $push of the new id to the stored array
WatchSave(p) ==
  /\ reqs[p].pc = "watchSave"
  /\ users' = UpdateUser(users, reqs[p].user,
                LAMBDA d : [d EXCEPT !.watchlist = Push(@, reqs[p].item)])
  /\ Answer(p, Resp("watch", reqs[p].user, reqs[p].item, "ok"))
  /\ reqs' = [reqs EXCEPT ![p] = Idle]
  /\ UNCHANGED <<items, nextId, nops, mode>>

\* ------------------------------------------ PUT /:id/sold (second router)
SoldValidate(its, u, i) ==
  IF i \notin DOMAIN its THEN "NotFound"
  ELSE IF its[i].status = "sold" THEN "NotAvailable"
  ELSE IF its[i].seller = u THEN "SelfPurchase"
  ELSE "ok"

\* buyer: $push boughtItems
SoldBuyerUpdate(d, i) == [d EXCEPT !.boughtItems = Push(@, i)]

\* seller: $push soldItems, $pull activeListings
SoldSellerUpdate(d, i) ==
  [d EXCEPT !.soldItems = Push(@, i), !.activeListings = Pull(@, i)]

MarkSold(p, u, i) ==
  /\ Begin(p)
  /\ LET v == SoldValidate(items, u, i)
     IN IF v = "ok"
        THEN /\ items' = [items EXCEPT ![i].status = "sold",
                                       ![i].soldAt = DATE,
                                       ![i].buyer = u]
             /\ users' = UpdateUser(
                  UpdateUser(users, u, LAMBDA d : SoldBuyerUpdate(d, i)),
                  items[i].seller, LAMBDA d : SoldSellerUpdate(d, i))
        ELSE UNCHANGED <<items, users>>
  /\ Answer(p, Resp("sold", u, i, SoldValidate(items, u, i)))
  /\ UNCHANGED <<reqs, nextId>>

\* PUT /:id/sold at the grain of its awaits, for requests that overlap.
\* await Item.findById(req.params.id) and the checks that follow; the
\* in-memory item is then marked sold
SoldFindItem(p, u, i) ==
  /\ Begin(p)
  /\ LET v == SoldValidate(items, u, i)
     IN IF v = "ok"
        THEN /\ reqs' = [reqs EXCEPT ![p] =
                    [pc |-> "soldSave", user |-> u, item |-> i,
                     doc |-> [items[i] EXCEPT !.status = "sold",
                                              !.soldAt = DATE,
                                              !.buyer = u]]]
             /\ UNCHANGED resp
        ELSE /\ Answer(p, Resp("sold", u, i, v))
             /\ UNCHANGED reqs
  /\ UNCHANGED <<items, users, nextId>>

\* await item.save()
SoldSaveItem(p) ==
  /\ reqs[p].pc = "soldSave"
  /\ reqs[p].item \in DOMAIN items
  /\ items' = [items EXCEPT ![reqs[p].item] = SaveSold(@, reqs[p].doc)]
  /\ reqs' = [reqs EXCEPT ![p].pc = "soldBuyer"]
  /\ UNCHANGED <<users, resp, nextId, nops, mode>>

\* await User.findByIdAndUpdate(req.user.id, {$push boughtItems})
SoldUpdateBuyer(p) ==
  /\ reqs[p].pc = "soldBuyer"
  /\ users' = UpdateUser(users, reqs[p].user,
                LAMBDA d : SoldBuyerUpdate(d, reqs[p].item))
  /\ reqs' = [reqs EXCEPT ![p].pc = "soldSeller"]
  /\ UNCHANGED <<items, resp, nextId, nops, mode>>

\* await User.findByIdAndUpdate(item.seller, {$push soldItems, $pull
\* activeListings})
SoldUpdateSeller(p) ==
  /\ reqs[p].pc = "soldSeller"
  /\ users' = UpdateUser(users, reqs[p].doc.seller,
                LAMBDA d : SoldSellerUpdate(d, reqs[p].item))
  /\ reqs' = [reqs EXCEPT ![p].pc = "soldRespond"]
  /\ UNCHANGED <<items, resp, nextId, nops, mode>>

\* await Item.findById(item._id).populate(..); res.json
SoldRespond(p) ==
  /\ reqs[p].pc = "soldRespond"
  /\ Answer(p, Resp("sold", reqs[p].user, reqs[p].item, "ok"))
  /\ reqs' = [reqs EXCEPT ![p] = Idle]
  /\ UNCHANGED <<items, users, nextId, nops, mode>>

\* ------------------------------------------------------------ PUT /:id
\* The fields of the request body that reach the item's lifecycle state; a
\* body with several of them acts as the single-field bodies one after the
\* other.
UpdateBodies ==
  [field : {"status"}, value : Statuses]
    \cup [field : {"buyer"}, value : {NULL} \cup Users]
    \cup [field : {"seller"}, value : Users]
    \cup [field : {"soldAt"}, value : {NULL, DATE}]
    \cup [field : {"price"}, value : {NULL}]

\* Item.findByIdAndUpdate(id, { $set: updatedFields })
ApplyBody(it, body) ==
  CASE body.field = "status" -> [it EXCEPT !.status = body.value]
    [] body.field = "buyer" -> [it EXCEPT !.buyer = body.value]
    [] body.field = "seller" -> [it EXCEPT !.seller = body.value]
    [] body.field = "soldAt" -> [it EXCEPT !.soldAt = body.value]
    [] OTHER -> it

OwnerValidate(its, u, i) ==
  IF i \notin DOMAIN its THEN "NotFound"
  ELSE IF its[i].seller # u THEN "NotOwner"
  ELSE "ok"

Update(p, u, i, body) ==
  /\ Begin(p)
  /\ IF OwnerValidate(items, u, i) = "ok"
     THEN items' = [items EXCEPT ![i] = ApplyBody(@, body)]
     ELSE UNCHANGED items
  /\ Answer(p, Resp("update", u, i, OwnerValidate(items, u, i)))
  /\ UNCHANGED <<users, reqs, nextId>>

\* ------------------------------------------------------ PUT /:id/relist
RelistValidate(its, u, i) ==
  IF i \notin DOMAIN its THEN "NotFound"
  ELSE IF its[i].seller # u THEN "NotOwner"
  ELSE IF its[i].status # "unavailable" THEN "NotDelisted"
  ELSE "ok"

Relist(p, u, i) ==
  /\ Begin(p)
  /\ IF RelistValidate(items, u, i) = "ok"
     THEN /\ items' = [items EXCEPT ![i].status = "available"]
          /\ users' = UpdateUser(users, u,
               LAMBDA d : [d EXCEPT !.activeListings = AddToSet(@, i)])
     ELSE UNCHANGED <<items, users>>
  /\ Answer(p, Resp("relist", u, i, RelistValidate(items, u, i)))
  /\ UNCHANGED <<reqs, nextId>>

\* -------------------------------------------------- POST /:id/fix-status
FixStatus(p, u, i) ==
  /\ Begin(p)
  /\ IF OwnerValidate(items, u, i) # "ok"
     THEN /\ Answer(p, Resp("fixstatus", u, i, OwnerValidate(items, u, i)))
          /\ UNCHANGED <<items, users>>
     ELSE IF items[i].buyer = NULL
     THEN /\ items' = [items EXCEPT ![i].status = "available"]
          /\ users' = UpdateUser(users, items[i].seller,
               LAMBDA d : [d EXCEPT !.activeListings = AddToSet(@, i),
                                    !.soldItems = Pull(@, i)])
          /\ Answer(p, Resp("fixstatus", u, i, "fixed"))
     ELSE /\ Answer(p, Resp("fixstatus", u, i, "noChange"))
          /\ UNCHANGED <<items, users>>
  /\ UNCHANGED <<reqs, nextId>>

\* --------------------------------------------------- POST /fix-all-items
FixAllToAvailable(it) == it.buyer = NULL /\ it.status # "available"

FixAllToSold(it) == it.buyer # NULL /\ it.status # "sold"

\* a repair loop that forgets to stamp soldAt
FixAllRepairNoSoldAt(it) ==
  IF FixAllToAvailable(it) THEN [it EXCEPT !.status = "available"]
  ELSE IF FixAllToSold(it) THEN [it EXCEPT !.status = "sold"]
  ELSE it

\* the loop body: both ifs, in the order of the code
FixAllRepair(it) ==
  LET a == IF FixAllToAvailable(it) THEN [it EXCEPT !.status = "available"] ELSE it
  IN IF FixAllToSold(a)
     THEN [a EXCEPT !.status = "sold",
                    !.soldAt = IF a.soldAt = NULL THEN DATE ELSE a.soldAt]
     ELSE a

\* fixedItems.push, once per if that fired
FixAllCount(it) ==
  (IF FixAllToAvailable(it) THEN 1 ELSE 0)
    + (IF FixAllToSold(IF FixAllToAvailable(it)
                       THEN [it EXCEPT !.status = "available"] ELSE it)
       THEN 1 ELSE 0)

RECURSIVE Sum(_, _)
Sum(f, S) == IF S = {} THEN 0
             ELSE LET x == CHOOSE y \in S : TRUE IN f[x] + Sum(f, S \ {x})

\* the lists are filtered from the in-memory items after the repair loop
FixAllLists(its, u) ==
  [activeListings |-> Find(its, LAMBDA it :
       it.seller = u /\ it.buyer = NULL /\ it.status = "available"),
   soldItems |-> Find(its, LAMBDA it :
       it.seller = u /\ it.buyer # NULL /\ it.status = "sold")]

FixAllItems(p, u) ==
  /\ Begin(p)
  /\ IF u \notin DOMAIN users
     THEN /\ Answer(p, Resp("fixall", u, 0, "ServerError"))
          /\ UNCHANGED <<items, users>>
     ELSE LET mine == {i \in DOMAIN items : items[i].seller = u}
              fixed == [i \in DOMAIN items |->
                          IF i \in mine THEN FixAllRepair(items[i]) ELSE items[i]]
              lists == FixAllLists(fixed, u)
          IN /\ items' = fixed
             /\ users' = [users EXCEPT ![u].activeListings = lists.activeListings,
                                       ![u].soldItems = lists.soldItems]
             /\ Answer(p, [Resp("fixall", u, 0, "ok") EXCEPT !.fixedItems =
                     Sum([i \in mine |-> FixAllCount(items[i])], mine)])
  /\ UNCHANGED <<reqs, nextId>>

\* POST /fix-all-items at the grain of its awaits, for requests that
\* overlap.  doc holds the items as Item.find returned them.
\* await Item.find({seller}) and await User.findById
FixAllLoad(p, u) ==
  /\ Begin(p)
  /\ IF u \notin DOMAIN users
     THEN /\ Answer(p, Resp("fixall", u, 0, "ServerError"))
          /\ UNCHANGED reqs
     ELSE /\ reqs' = [reqs EXCEPT ![p] =
                 [pc |-> "fixSave", user |-> u, item |-> 0, doc |-> items]]
          /\ UNCHANGED resp
  /\ UNCHANGED <<items, users, nextId>>

\* item.save() of a repaired document writes the paths the loop assigned
SaveRepaired(it, before, after) ==
  [it EXCEPT !.status = after.status,
             !.soldAt = IF after.soldAt # before.soldAt THEN after.soldAt ELSE @]

\* the repair loop: await item.save() for each fetched item that needed a fix
FixAllSave(p) ==
  /\ reqs[p].pc = "fixSave"
  /\ LET snap == reqs[p].doc
         mine == {i \in DOMAIN snap : snap[i].seller = reqs[p].user}
     IN items' = [i \in DOMAIN items |->
                   IF i \in mine /\ FixAllRepair(snap[i]) # snap[i]
                   THEN SaveRepaired(items[i], snap[i], FixAllRepair(snap[i]))
                   ELSE items[i]]
  /\ reqs' = [reqs EXCEPT ![p].pc = "fixSet"]
  /\ UNCHANGED <<users, resp, nextId, nops, mode>>

\* await User.findByIdAndUpdate($set of both lists, filtered from the
\* fetched and repaired items); res.json
FixAllSetLists(p) ==
  /\ reqs[p].pc = "fixSet"
  /\ LET u == reqs[p].user
         snap == reqs[p].doc
         mine == {i \in DOMAIN snap : snap[i].seller = u}
         fixed == [i \in DOMAIN snap |->
                     IF i \in mine THEN FixAllRepair(snap[i]) ELSE snap[i]]
         lists == FixAllLists(fixed, u)
     IN /\ users' = UpdateUser(users, u, LAMBDA d :
                       [d EXCEPT !.activeListings = lists.activeListings,
                                 !.soldItems = lists.soldItems])
        /\ Answer(p, [Resp("fixall", u, 0, "ok") EXCEPT !.fixedItems =
                Sum([i \in mine |-> FixAllCount(snap[i])], mine)])
  /\ reqs' = [reqs EXCEPT ![p] = Idle]
  /\ UNCHANGED <<items, nextId, nops, mode>>

\* ------------------------------------------- GET /listings (users router)
RECURSIVE Reverse(_)
Reverse(s) == IF s = <<>> THEN <<>> ELSE Append(Reverse(Tail(s)), Head(s))

\* Item.find({seller, status: 'available'}).sort({createdAt: -1}): items are
\* created in _id order
AvailableItemIds(its, u) ==
  Reverse(Find(its, LAMBDA it : it.seller = u /\ it.status = "available"))

\* a comparison that walks the stored array, as arraysEqual of sync-all does
ListingsNeedsSyncWalksStored(availableItemIds, userListingIds) ==
  \/ Len(availableItemIds) # Len(userListingIds)
  \/ \E k \in 1..Len(userListingIds) :
       userListingIds[k] \notin Range(availableItemIds)

\* needsSync: the lengths differ, or an available id is not in the stored
\* array
ListingsNeedsSync(availableItemIds, userListingIds) ==
  \/ Len(availableItemIds) # Len(userListingIds)
  \/ \E k \in 1..Len(availableItemIds) :
       availableItemIds[k] \notin Range(userListingIds)

GetListings(p, u) ==
  /\ Begin(p)
  /\ IF u \notin DOMAIN users
     THEN /\ Answer(p, Resp("listings", u, 0, "ServerError"))
          /\ UNCHANGED users
     ELSE LET availableItemIds == AvailableItemIds(items, u)
          IN /\ users' = IF ListingsNeedsSync(availableItemIds,
                                               users[u].activeListings)
                          THEN UpdateUser(users, u, LAMBDA d :
                                 [d EXCEPT !.activeListings = availableItemIds])
                          ELSE users
             /\ Answer(p, [Resp("listings", u, 0, "ok") EXCEPT
                             !.data = availableItemIds])
  /\ UNCHANGED <<items, reqs, nextId>>

\* ------------------------------------------------- POST /sync-all (admin)
arraysEqual(arr1, arr2) ==
  IF Len(arr1) # Len(arr2) THEN FALSE
  ELSE \A k \in 1..Len(arr1) : arr1[k] \in Range(arr2)

SyncNeedsFix(it) ==
  \/ it.buyer = NULL /\ it.status # "available"
  \/ it.buyer # NULL /\ it.status # "sold"

\* a repair that resolves a buyer on an unsold item by dropping the buyer
SyncRepairDropsBuyer(it) ==
  IF it.buyer = NULL /\ it.status # "available"
  THEN [it EXCEPT !.status = "available"]
  ELSE IF it.buyer # NULL /\ it.status # "sold"
  THEN [it EXCEPT !.status = "available", !.buyer = NULL]
  ELSE it

\* the if / else if of the repair loop
SyncRepair(it) ==
  IF it.buyer = NULL /\ it.status # "available"
  THEN [it EXCEPT !.status = "available"]
  ELSE IF it.buyer # NULL /\ it.status # "sold"
  THEN [it EXCEPT !.status = "sold",
                  !.soldAt = IF it.soldAt = NULL THEN DATE ELSE it.soldAt]
  ELSE it

\* availableItems and soldItems of one user, filtered from userItems as
\* they were fetched, before the repair loop runs
SyncLists(its, u) ==
  [activeListings |-> Find(its, LAMBDA it :
       it.seller = u /\ it.buyer = NULL /\ it.status = "available"),
   soldItems |-> Find(its, LAMBDA it :
       it.seller = u /\ it.buyer # NULL /\ it.status = "sold")]

\* One iteration of "for (const user of users)".  st is the database and
\* the results object; user is the document fetched by User.find({}).
SyncUserPass(st, user, u) ==
  LET mine == {i \in DOMAIN st.items : st.items[i].seller = u}
      lists == SyncLists(st.items, u)
      fixed == [i \in DOMAIN st.items |->
                  IF i \in mine THEN SyncRepair(st.items[i]) ELSE st.items[i]]
      need == \/ ~arraysEqual(user.activeListings, lists.activeListings)
              \/ ~arraysEqual(user.soldItems, lists.soldItems)
  IN [items |-> fixed,
      users |-> IF need
                THEN UpdateUser(st.users, u, LAMBDA d :
                       [d EXCEPT !.activeListings = lists.activeListings,
                                 !.soldItems = lists.soldItems])
                ELSE st.users,
      fixedItemStatuses |-> st.fixedItemStatuses
          + Cardinality({i \in mine : SyncNeedsFix(st.items[i])}),
      fixedUserReferences |-> st.fixedUserReferences + IF need THEN 1 ELSE 0]

RECURSIVE SyncUsers(_, _, _)
SyncUsers(st, snapshot, us) ==
  IF us = <<>> THEN st
  ELSE SyncUsers(SyncUserPass(st, snapshot[Head(us)], Head(us)), snapshot, Tail(us))

\* a sold pass that counts the missing reference without writing it
SyncSoldPassCountsOnly(st, it, i) ==
  IF /\ it.buyer # NULL
     /\ it.buyer \in DOMAIN st.users
     /\ i \notin Range(st.users[it.buyer].boughtItems)
  THEN [st EXCEPT !.fixedUserReferences = @ + 1]
  ELSE st

\* One iteration of "for (const item of allItems)": the buyer's boughtItems
SyncSoldPass(st, it, i) ==
  IF /\ it.buyer # NULL
     /\ it.buyer \in DOMAIN st.users
     /\ i \notin Range(st.users[it.buyer].boughtItems)
  THEN [st EXCEPT !.users = UpdateUser(st.users, it.buyer, LAMBDA d :
                      [d EXCEPT !.boughtItems = AddToSet(@, i)]),
                  !.fixedUserReferences = @ + 1]
  ELSE st

RECURSIVE SyncSold(_, _, _)
SyncSold(st, allItems, ids) ==
  IF ids = <<>> THEN st
  ELSE SyncSold(SyncSoldPass(st, allItems[Head(ids)], Head(ids)), allItems, Tail(ids))

SyncAllResult(its, us) ==
  LET all == SelectSeq(UserOrder, LAMBDA u : u \in DOMAIN us)
      st0 == [items |-> its, users |-> us,
              fixedItemStatuses |-> 0, fixedUserReferences |-> 0]
      st1 == SyncUsers(st0, us, all)
  IN SyncSold(st1, st1.items, Find(st1.items, LAMBDA it : it.status = "sold"))

\* The handler proper; the auth and isAdmin middleware in front of it decide
\* who may run it.
SyncAll(p, u) ==
  /\ Begin(p)
  /\ LET st == SyncAllResult(items, users)
     IN /\ items' = st.items
        /\ users' = st.users
        /\ Answer(p, [Resp("syncall", u, 0, "ok") EXCEPT
                         !.fixedItems = st.fixedItemStatuses,
                         !.fixedRefs = st.fixedUserReferences])
  /\ UNCHANGED <<reqs, nextId>>

\* ------------------------------------------- the isAdmin middleware
\* an administrator list with one entry
adminIdsWithSeller == {"u1"}

\* const adminIds = [] with its two comment lines
adminIds == {}

\* What isAdmin does with a request: reqUser is req.user.id as the auth
\* middleware left it (NULL when it set none), rejects says that
\* User.findById rejects.  "next" stands for the call of next().
isAdmin(us, reqUser, rejects) ==
  IF reqUser = NULL THEN "Unauthorized"
  ELSE IF rejects THEN "ServerError"
  ELSE IF reqUser \notin DOMAIN us THEN "NotFound"
  ELSE IF reqUser \in adminIds THEN "next"
  ELSE "Forbidden"

\* router.post('/sync-all', [auth, isAdmin], handler): the handler of
\* SyncAll behind the middleware
AdminSyncAll(p, reqUser, rejects) ==
  /\ Begin(p)
  /\ LET gate == isAdmin(users, reqUser, rejects)
         st == SyncAllResult(items, users)
     IN IF gate = "next"
        THEN /\ items' = st.items
             /\ users' = st.users
             /\ Answer(p, [Resp("syncall", reqUser, 0, "ok") EXCEPT
                              !.fixedItems = st.fixedItemStatuses,
                              !.fixedRefs = st.fixedUserReferences])
        ELSE /\ UNCHANGED <<items, users>>
             /\ Answer(p, Resp("syncall", reqUser, 0, gate))
  /\ UNCHANGED <<reqs, nextId>>

\* ------------------------------- POST /sync-all, a database call rejecting
\* The awaited call of a run that rejects, if any: User.find({}), Item.find
\* of one user, User.findByIdAndUpdate of one user, Item.find({status:
\* 'sold'}), or User.findById of the buyer of one sold item.
SyncFaults ==
  [at : {"none", "loadUsers", "loadSold"}, user : {NULL}, item : {0}]
    \cup [at : {"userFind", "userUpdate"}, user : Users, item : {0}]
    \cup [at : {"soldItem"}, user : {NULL}, item : ItemIds]

\* One iteration of the user loop; its catch pushes {userId, error} and the
\* loop goes on.  What the try block wrote before the rejection stays.
SyncUserPassFaulty(st, user, u, fault) ==
  LET pass == SyncUserPass(st, user, u)
  IN IF fault.at = "userFind" /\ fault.user = u
     THEN [st EXCEPT !.errors = Append(@, [userId |-> u])]
     ELSE IF /\ fault.at = "userUpdate" /\ fault.user = u
             /\ pass.fixedUserReferences # st.fixedUserReferences
     THEN [st EXCEPT !.items = pass.items,
                     !.fixedItemStatuses = pass.fixedItemStatuses,
                     !.errors = Append(@, [userId |-> u])]
     ELSE [st EXCEPT !.items = pass.items,
                     !.users = pass.users,
                     !.fixedItemStatuses = pass.fixedItemStatuses,
                     !.fixedUserReferences = pass.fixedUserReferences]

RECURSIVE SyncUsersFaulty(_, _, _, _)
SyncUsersFaulty(st, snapshot, us, fault) ==
  IF us = <<>> THEN st
  ELSE SyncUsersFaulty(SyncUserPassFaulty(st, snapshot[Head(us)], Head(us), fault),
                       snapshot, Tail(us), fault)

\* One iteration of the sold-item loop; its catch pushes {itemId, error}.
SyncSoldPassFaulty(st, it, i, fault) ==
  IF fault.at = "soldItem" /\ fault.item = i /\ it.buyer # NULL
  THEN [st EXCEPT !.errors = Append(@, [itemId |-> i])]
  ELSE SyncSoldPass(st, it, i)

RECURSIVE SyncSoldFaulty(_, _, _, _)
SyncSoldFaulty(st, allItems, ids, fault) ==
  IF ids = <<>> THEN st
  ELSE SyncSoldFaulty(SyncSoldPassFaulty(st, allItems[Head(ids)], Head(ids), fault),
                      allItems, Tail(ids), fault)

\* The handler with its try / catch blocks.  A rejection of one of the two
\* loads is caught by the outer catch, which answers 500.
SyncAllFaulty(p, u, fault) ==
  /\ Begin(p)
  /\ LET all == SelectSeq(UserOrder, LAMBDA v : v \in DOMAIN users)
         st0 == [items |-> items, users |-> users, fixedItemStatuses |-> 0,
                 fixedUserReferences |-> 0, errors |-> <<>>]
         st1 == SyncUsersFaulty(st0, users, all, fault)
         st2 == SyncSoldFaulty(st1, st1.items,
                  Find(st1.items, LAMBDA it : it.status = "sold"), fault)
     IN IF fault.at = "loadUsers"
        THEN /\ UNCHANGED <<items, users>>
             /\ Answer(p, Resp("syncall", u, 0, "ServerError"))
        ELSE IF fault.at = "loadSold"
        THEN /\ items' = st1.items
             /\ users' = st1.users
             /\ Answer(p, Resp("syncall", u, 0, "ServerError"))
        ELSE /\ items' = st2.items
             /\ users' = st2.users
             /\ Answer(p, [Resp("syncall", u, 0, "ok") EXCEPT
                              !.fixedItems = st2.fixedItemStatuses,
                              !.fixedRefs = st2.fixedUserReferences,
                              !.errors = Len(st2.errors),
                              !.data = st2.errors])
  /\ UNCHANGED <<reqs, nextId>>

\* ------------------------------------------------- distance estimator
\* A pincode is its sequence of digits; a latitude or longitude is a whole
\* number of 1/10000 degree; a region name is its sequence of words; a
\* distance is a whole number of 1/100000 km.
Km == 100000

\* the curated table of exact pincodes
pincodeCoordinates ==
  <<1, 1, 0, 0, 0, 1>> :> [lat |-> 286139, lon |-> 772090, region |-> <<"Delhi">>]
    @@ <<4, 0, 0, 0, 0, 1>> :> [lat |-> 190760, lon |-> 728777, region |-> <<"Mumbai">>]
    @@ <<5, 6, 0, 0, 0, 1>> :> [lat |-> 129716, lon |-> 775946, region |-> <<"Bengaluru">>]
    @@ <<6, 0, 0, 0, 0, 1>> :> [lat |-> 130827, lon |-> 802707, region |-> <<"Chennai">>]
    @@ <<5, 0, 0, 0, 0, 1>> :> [lat |-> 173850, lon |-> 784867, region |-> <<"Hyderabad">>]
    @@ <<7, 0, 0, 0, 0, 1>> :> [lat |-> 225726, lon |-> 883639, region |-> <<"Kolkata">>]

\* the regional table; getPincodeCoordinates looks it up by three digits
detailedRegionMap ==
  <<1, 1, 0>> :> [lat |-> 286139, lon |-> 772090, region |-> <<"Delhi">>]
    @@ <<1, 2, 0>> :> [lat |-> 285355, lon |-> 773910, region |-> <<"Noida">>]
    @@ <<1, 2, 1>> :> [lat |-> 286692, lon |-> 774538, region |-> <<"Ghaziabad">>]
    @@ <<1, 2, 2>> :> [lat |-> 284595, lon |-> 770266, region |-> <<"Gurugram">>]
    @@ <<2, 0, 1>> :> [lat |-> 286304, lon |-> 772177, region |-> <<"Greater", "Noida">>]
    @@ <<4, 0, 0>> :> [lat |-> 190760, lon |-> 728777, region |-> <<"Mumbai">>]
    @@ <<4, 0, 0, 0, 0, 1>> :> [lat |-> 189387, lon |-> 728353, region |-> <<"Mumbai", "South">>]
    @@ <<4, 0, 0, 0, 0, 2>> :> [lat |-> 189520, lon |-> 728327, region |-> <<"Mumbai", "South">>]
    @@ <<4, 0, 0, 0, 0, 3>> :> [lat |-> 189631, lon |-> 728308, region |-> <<"Mumbai", "South">>]
    @@ <<4, 0, 0, 0, 0, 4>> :> [lat |-> 189548, lon |-> 728224, region |-> <<"Mumbai", "South">>]
    @@ <<4, 0, 0, 0, 0, 5>> :> [lat |-> 189379, lon |-> 728276, region |-> <<"Mumbai", "South">>]
    @@ <<4, 0, 0, 0, 0, 8>> :> [lat |-> 189568, lon |-> 728111, region |-> <<"Mumbai", "South">>]
    @@ <<4, 0, 0, 0, 0, 9>> :> [lat |-> 189647, lon |-> 727993, region |-> <<"Mumbai", "South">>]
    @@ <<4, 0, 0, 0, 1, 0>> :> [lat |-> 189764, lon |-> 728156, region |-> <<"Mumbai", "South">>]
    @@ <<4, 0, 0, 0, 1, 1>> :> [lat |-> 189622, lon |-> 728359, region |-> <<"Mumbai", "South">>]
    @@ <<4, 0, 0, 0, 1, 2>> :> [lat |-> 189673, lon |-> 728440, region |-> <<"Mumbai", "South">>]
    @@ <<4, 0, 0, 0, 1, 8>> :> [lat |-> 190101, lon |-> 728498, region |-> <<"Mumbai", "Central">>]
    @@ <<4, 0, 0, 0, 2, 0>> :> [lat |-> 190283, lon |-> 728545, region |-> <<"Mumbai", "Central">>]
    @@ <<4, 0, 0, 0, 2, 2>> :> [lat |-> 190389, lon |-> 728293, region |-> <<"Mumbai", "Central">>]
    @@ <<4, 0, 0, 0, 2, 5>> :> [lat |-> 190499, lon |-> 728176, region |-> <<"Mumbai", "West">>]
    @@ <<4, 0, 0, 0, 2, 6>> :> [lat |-> 190628, lon |-> 728308, region |-> <<"Mumbai", "West">>]
    @@ <<4, 0, 0, 0, 2, 8>> :> [lat |-> 190773, lon |-> 728296, region |-> <<"Mumbai", "West">>]
    @@ <<4, 0, 0, 0, 3, 0>> :> [lat |-> 190883, lon |-> 728311, region |-> <<"Mumbai", "West">>]
    @@ <<4, 0, 0, 0, 5, 0>> :> [lat |-> 190968, lon |-> 728517, region |-> <<"Mumbai", "West">>]
    @@ <<4, 0, 0, 0, 5, 1>> :> [lat |-> 190643, lon |-> 728396, region |-> <<"Mumbai", "West">>]
    @@ <<4, 0, 0, 0, 5, 2>> :> [lat |-> 191246, lon |-> 728361, region |-> <<"Mumbai", "Northwest">>]
    @@ <<4, 0, 0, 0, 5, 3>> :> [lat |-> 191310, lon |-> 728298, region |-> <<"Mumbai", "Northwest">>]
    @@ <<4, 0, 0, 0, 5, 4>> :> [lat |-> 191462, lon |-> 728296, region |-> <<"Mumbai", "Northwest">>]
    @@ <<4, 0, 0, 0, 5, 5>> :> [lat |-> 191505, lon |-> 728554, region |-> <<"Mumbai", "Northwest">>]
    @@ <<4, 0, 0, 0, 5, 6>> :> [lat |-> 191190, lon |-> 728816, region |-> <<"Mumbai", "Northwest">>]
    @@ <<4, 0, 0, 0, 6, 0>> :> [lat |-> 191755, lon |-> 728370, region |-> <<"Mumbai", "Northwest">>]
    @@ <<4, 0, 0, 0, 6, 3>> :> [lat |-> 192006, lon |-> 728406, region |-> <<"Mumbai", "Northwest">>]
    @@ <<4, 0, 0, 0, 6, 4>> :> [lat |-> 192065, lon |-> 728629, region |-> <<"Mumbai", "Northwest">>]
    @@ <<4, 0, 0, 0, 6, 5>> :> [lat |-> 192305, lon |-> 728567, region |-> <<"Mumbai", "Northwest">>]
    @@ <<4, 0, 0, 0, 6, 6>> :> [lat |-> 192502, lon |-> 728486, region |-> <<"Mumbai", "Northwest">>]
    @@ <<4, 0, 0, 0, 7, 0>> :> [lat |-> 190903, lon |-> 728894, region |-> <<"Mumbai", "Northeast">>]
    @@ <<4, 0, 0, 0, 7, 1>> :> [lat |-> 190508, lon |-> 729073, region |-> <<"Mumbai", "Northeast">>]
    @@ <<4, 0, 0, 0, 7, 2>> :> [lat |-> 190635, lon |-> 729137, region |-> <<"Mumbai", "Northeast">>]
    @@ <<4, 0, 0, 0, 7, 5>> :> [lat |-> 191149, lon |-> 729070, region |-> <<"Mumbai", "Northeast">>]
    @@ <<4, 0, 0, 0, 7, 6>> :> [lat |-> 191331, lon |-> 729425, region |-> <<"Mumbai", "Northeast">>]
    @@ <<4, 0, 0, 0, 7, 8>> :> [lat |-> 190435, lon |-> 729251, region |-> <<"Mumbai", "Northeast">>]
    @@ <<4, 0, 0, 0, 8, 0>> :> [lat |-> 190625, lon |-> 729988, region |-> <<"Navi", "Mumbai">>]
    @@ <<4, 0, 0, 0, 8, 1>> :> [lat |-> 190301, lon |-> 730297, region |-> <<"Navi", "Mumbai">>]
    @@ <<4, 0, 0, 0, 8, 2>> :> [lat |-> 190467, lon |-> 730153, region |-> <<"Navi", "Mumbai">>]
    @@ <<4, 0, 0, 0, 8, 3>> :> [lat |-> 190154, lon |-> 730410, region |-> <<"Navi", "Mumbai">>]
    @@ <<4, 0, 0, 0, 8, 6>> :> [lat |-> 190048, lon |-> 730297, region |-> <<"Navi", "Mumbai">>]
    @@ <<4, 0, 0, 0, 8, 7>> :> [lat |-> 189901, lon |-> 730365, region |-> <<"Navi", "Mumbai">>]
    @@ <<4, 0, 0, 0, 8, 8>> :> [lat |-> 189720, lon |-> 730566, region |-> <<"Navi", "Mumbai">>]
    @@ <<4, 0, 1>> :> [lat |-> 192183, lon |-> 729781, region |-> <<"Thane">>]
    @@ <<4, 0, 1, 1, 0, 7>> :> [lat |-> 191943, lon |-> 729615, region |-> <<"Thane">>]
    @@ <<4, 0, 2>> :> [lat |-> 189068, lon |-> 728164, region |-> <<"Navi", "Mumbai">>]
    @@ <<5, 6, 0>> :> [lat |-> 129716, lon |-> 775946, region |-> <<"Bengaluru", "Central">>]
    @@ <<5, 6, 1>> :> [lat |-> 130827, lon |-> 777085, region |-> <<"Bengaluru", "East">>]
    @@ <<5, 6, 2>> :> [lat |-> 131986, lon |-> 777066, region |-> <<"Bengaluru", "North">>]
    @@ <<6, 0, 0>> :> [lat |-> 130827, lon |-> 802707, region |-> <<"Chennai", "Central">>]
    @@ <<6, 0, 1>> :> [lat |-> 131231, lon |-> 801127, region |-> <<"Chennai", "West">>]
    @@ <<6, 0, 2>> :> [lat |-> 129217, lon |-> 801152, region |-> <<"Chennai", "South">>]
    @@ <<6, 0, 3>> :> [lat |-> 132331, lon |-> 803047, region |-> <<"Chennai", "North">>]
    @@ <<5, 0, 0>> :> [lat |-> 173850, lon |-> 784867, region |-> <<"Hyderabad">>]
    @@ <<5, 0, 1>> :> [lat |-> 175451, lon |-> 785715, region |-> <<"Secunderabad">>]
    @@ <<7, 0, 0>> :> [lat |-> 225726, lon |-> 883639, region |-> <<"Kolkata">>]
    @@ <<7, 0, 1>> :> [lat |-> 226920, lon |-> 883697, region |-> <<"Kolkata", "North">>]
    @@ <<4, 1, 1>> :> [lat |-> 185204, lon |-> 738567, region |-> <<"Pune">>]
    @@ <<4, 1, 2>> :> [lat |-> 184088, lon |-> 739325, region |-> <<"Pimpri-Chinchwad">>]
    @@ <<3, 8, 0>> :> [lat |-> 230225, lon |-> 725714, region |-> <<"Ahmedabad">>]
    @@ <<3, 8, 2>> :> [lat |-> 231215, lon |-> 725714, region |-> <<"Gandhinagar">>]

\* the coarse table, by two digits
regionMap ==
  <<1, 1>> :> [lat |-> 286139, lon |-> 772090, region |-> <<"Delhi", "NCR">>]
    @@ <<1, 2>> :> [lat |-> 284595, lon |-> 770266, region |-> <<"Delhi", "NCR">>]
    @@ <<2, 0>> :> [lat |-> 286304, lon |-> 772177, region |-> <<"UP", "(West)">>]
    @@ <<4, 0>> :> [lat |-> 190760, lon |-> 728777, region |-> <<"Mumbai", "Region">>]
    @@ <<4, 1>> :> [lat |-> 185204, lon |-> 738567, region |-> <<"Pune", "Region">>]
    @@ <<4, 2>> :> [lat |-> 199975, lon |-> 737898, region |-> <<"Nashik">>]
    @@ <<4, 3>> :> [lat |-> 211458, lon |-> 790882, region |-> <<"Nagpur">>]
    @@ <<5, 0>> :> [lat |-> 173850, lon |-> 784867, region |-> <<"Telangana">>]
    @@ <<5, 1>> :> [lat |-> 165062, lon |-> 806480, region |-> <<"Andhra", "Pradesh">>]
    @@ <<5, 3>> :> [lat |-> 136288, lon |-> 794192, region |-> <<"Southern", "AP">>]
    @@ <<5, 6>> :> [lat |-> 129716, lon |-> 775946, region |-> <<"Karnataka">>]
    @@ <<5, 7>> :> [lat |-> 153173, lon |-> 763422, region |-> <<"Northern", "Karnataka">>]
    @@ <<5, 8>> :> [lat |-> 144673, lon |-> 759218, region |-> <<"Central", "Karnataka">>]
    @@ <<6, 0>> :> [lat |-> 130827, lon |-> 802707, region |-> <<"Tamil", "Nadu">>]
    @@ <<6, 2>> :> [lat |-> 99252, lon |-> 781198, region |-> <<"Southern", "TN">>]
    @@ <<6, 4>> :> [lat |-> 110168, lon |-> 769558, region |-> <<"Western", "TN">>]
    @@ <<7, 0>> :> [lat |-> 225726, lon |-> 883639, region |-> <<"West", "Bengal">>]
    @@ <<7, 1>> :> [lat |-> 267271, lon |-> 883953, region |-> <<"Northern", "WB">>]
    @@ <<3, 8>> :> [lat |-> 230225, lon |-> 725714, region |-> <<"Gujarat">>]
    @@ <<3, 9>> :> [lat |-> 211702, lon |-> 728311, region |-> <<"Southern", "Gujarat">>]
    @@ <<3, 0>> :> [lat |-> 269124, lon |-> 757873, region |-> <<"Rajasthan">>]
    @@ <<3, 3>> :> [lat |-> 309010, lon |-> 758573, region |-> <<"Punjab">>]
    @@ <<3, 4>> :> [lat |-> 311048, lon |-> 771734, region |-> <<"Himachal", "Pradesh">>]
    @@ <<1, 8>> :> [lat |-> 233441, lon |-> 853096, region |-> <<"Jharkhand">>]
    @@ <<8, 0>> :> [lat |-> 255941, lon |-> 851376, region |-> <<"Bihar">>]
    @@ <<8, 5>> :> [lat |-> 202961, lon |-> 858245, region |-> <<"Odisha">>]

GreatCircle ==
  <<286139, 772090, 284595, 770266>> :> 2474300
    @@ <<286139, 772090, 190760, 728777>> :> 114809500
    @@ <<286139, 772090, 189068, 728164>> :> 116795900
    @@ <<286139, 772090, 192183, 729781>> :> 112949900
    @@ <<286139, 772090, 185204, 738567>> :> 117299500
    @@ <<286139, 772090, 205937, 789629>> :> 90921700
    @@ <<284595, 770266, 286139, 772090>> :> 2474300
    @@ <<284595, 770266, 190760, 728777>> :> 112529800
    @@ <<284595, 770266, 189068, 728164>> :> 114517000
    @@ <<284595, 770266, 192183, 729781>> :> 110673700
    @@ <<284595, 770266, 185204, 738567>> :> 115130500
    @@ <<284595, 770266, 205937, 789629>> :> 89624800
    @@ <<190760, 728777, 286139, 772090>> :> 114809500
    @@ <<190760, 728777, 284595, 770266>> :> 112529800
    @@ <<190760, 728777, 189068, 728164>> :> 1988800
    @@ <<190760, 728777, 192183, 729781>> :> 1901600
    @@ <<190760, 728777, 185204, 738567>> :> 12015200
    @@ <<190760, 728777, 205937, 789629>> :> 65843500
    @@ <<189068, 728164, 286139, 772090>> :> 116795900
    @@ <<189068, 728164, 284595, 770266>> :> 114517000
    @@ <<189068, 728164, 190760, 728777>> :> 1988800
    @@ <<189068, 728164, 192183, 729781>> :> 3858200
    @@ <<189068, 728164, 185204, 738567>> :> 11768400
    @@ <<189068, 728164, 205937, 789629>> :> 66998100
    @@ <<192183, 729781, 286139, 772090>> :> 112949900
    @@ <<192183, 729781, 284595, 770266>> :> 110673700
    @@ <<192183, 729781, 190760, 728777>> :> 1901600
    @@ <<192183, 729781, 189068, 728164>> :> 3858200
    @@ <<192183, 729781, 185204, 738567>> :> 12069900
    @@ <<192183, 729781, 205937, 789629>> :> 64408600
    @@ <<185204, 738567, 286139, 772090>> :> 117299500
    @@ <<185204, 738567, 284595, 770266>> :> 115130500
    @@ <<185204, 738567, 190760, 728777>> :> 12015200
    @@ <<185204, 738567, 189068, 728164>> :> 11768400
    @@ <<185204, 738567, 192183, 729781>> :> 12069900
    @@ <<185204, 738567, 205937, 789629>> :> 58252800
    @@ <<205937, 789629, 286139, 772090>> :> 90921700
    @@ <<205937, 789629, 284595, 770266>> :> 89624800
    @@ <<205937, 789629, 190760, 728777>> :> 65843500
    @@ <<205937, 789629, 189068, 728164>> :> 66998100
    @@ <<205937, 789629, 192183, 729781>> :> 64408600
    @@ <<205937, 789629, 185204, 738567>> :> 58252800

\* String.prototype.includes on region names, word by word
Includes(str, sub) ==
  \E k \in 1..(Len(str) - Len(sub) + 1) : SubSeq(str, k, k + Len(sub) - 1) = sub

\* the last fallback of getPincodeCoordinates
CentralIndia == [lat |-> 205937, lon |-> 789629, region |-> <<"Central", "India">>]

\* the key of the regional table taken to be the whole pincode
firstThreeDigitsWhole(pincode) == pincode

\* pincode.substring(0, 3), the key looked up in the regional table
firstThreeDigits(pincode) == SubSeq(pincode, 1, 3)

\* getPincodeCoordinates without the lookup by three digits
getPincodeCoordinatesNoRegional(pincode) ==
  IF pincode \in DOMAIN pincodeCoordinates
  THEN pincodeCoordinates[pincode]
  ELSE IF SubSeq(pincode, 1, 2) \in DOMAIN regionMap
  THEN regionMap[SubSeq(pincode, 1, 2)]
  ELSE CentralIndia

getPincodeCoordinates(pincode) ==
  IF pincode \in DOMAIN pincodeCoordinates
  THEN [lat |-> pincodeCoordinates[pincode].lat,
        lon |-> pincodeCoordinates[pincode].lon,
        region |-> pincodeCoordinates[pincode].region]
  ELSE LET firstTwoDigits == SubSeq(pincode, 1, 2)
       IN IF firstThreeDigits(pincode) \in DOMAIN detailedRegionMap
          THEN detailedRegionMap[firstThreeDigits(pincode)]
          ELSE IF firstTwoDigits \in DOMAIN regionMap
          THEN regionMap[firstTwoDigits]
          ELSE CentralIndia

\* R * c of the haversine formula (R = 6371 km), evaluated in double
\* precision for each ordered pair of distinct coordinates the pincodes of
\* the model resolve to, to the metre
haversine(lat1, lon1, lat2, lon2) ==
  IF lat1 = lat2 /\ lon1 = lon2 THEN 0
  ELSE GreatCircle[<<lat1, lon1, lat2, lon2>>]

Max(a, b) == IF a >= b THEN a ELSE b

\* Math.round(x * 10) / 10
RoundTenth(x) == ((x + Km \div 20) \div (Km \div 10)) * (Km \div 10)

\* Math.round(x / 5) * 5
RoundFive(x) == ((x + (5 * Km) \div 2) \div (5 * Km)) * (5 * Km)

\* x * (num / 100)
Scale(x, num) == (x \div 100) * num

\* the large-city test knowing Mumbai only
MajorCityMumbaiOnly(region) == Includes(region, <<"Mumbai">>)

MajorCity(region) ==
  \/ Includes(region, <<"Mumbai">>)
  \/ Includes(region, <<"Delhi">>)
  \/ Includes(region, <<"Bengaluru">>)
  \/ Includes(region, <<"Chennai">>)
  \/ Includes(region, <<"Kolkata">>)
  \/ Includes(region, <<"Hyderabad">>)

\* "More accurate handling for same region/city"
SameRegionAdjust(from, to, fromPincode, toPincode, distance) ==
  IF from.region # to.region THEN [distance |-> distance, note |-> ""]
  ELSE IF fromPincode = toPincode THEN [distance |-> Km, note |-> "(same area)"]
  ELSE IF distance >= 5 * Km THEN [distance |-> distance, note |-> ""]
  ELSE IF MajorCity(from.region)
  THEN [distance |-> Max(2 * Km, distance), note |-> "(same city)"]
  ELSE [distance |-> Max(3 * Km, distance), note |-> "(same region)"]

\* the condition of "Special handling for Mumbai regions"
MumbaiRoute(from, to) ==
  \/ Includes(from.region, <<"Mumbai">>) /\ Includes(to.region, <<"Mumbai">>)
  \/ Includes(from.region, <<"Navi", "Mumbai">>) /\ Includes(to.region, <<"Mumbai">>)
  \/ Includes(from.region, <<"Mumbai">>) /\ Includes(to.region, <<"Navi", "Mumbai">>)
  \/ Includes(from.region, <<"Thane">>) /\ Includes(to.region, <<"Mumbai">>)
  \/ Includes(from.region, <<"Mumbai">>) /\ Includes(to.region, <<"Thane">>)

SouthToSuburb(from, to) ==
  \/ Includes(from.region, <<"Mumbai", "South">>) /\ ~Includes(to.region, <<"Mumbai", "South">>)
  \/ ~Includes(from.region, <<"Mumbai", "South">>) /\ Includes(to.region, <<"Mumbai", "South">>)

CrossCity(from, to) ==
  \/ Includes(from.region, <<"Mumbai", "West">>) /\ Includes(to.region, <<"Mumbai", "Northeast">>)
  \/ Includes(from.region, <<"Mumbai", "Northeast">>) /\ Includes(to.region, <<"Mumbai", "West">>)
  \/ Includes(from.region, <<"Mumbai", "Northwest">>) /\ Includes(to.region, <<"Mumbai", "Northeast">>)
  \/ Includes(from.region, <<"Mumbai", "Northeast">>) /\ Includes(to.region, <<"Mumbai", "Northwest">>)

\* NaviMumbaiRoute testing one direction only
NaviMumbaiRouteOneWay(from, to) ==
  Includes(from.region, <<"Mumbai">>) /\ Includes(to.region, <<"Navi", "Mumbai">>)

NaviMumbaiRoute(from, to) ==
  \/ Includes(from.region, <<"Mumbai">>) /\ Includes(to.region, <<"Navi", "Mumbai">>)
  \/ Includes(from.region, <<"Navi", "Mumbai">>) /\ Includes(to.region, <<"Mumbai">>)

ThaneRoute(from, to) ==
  \/ Includes(from.region, <<"Mumbai">>) /\ Includes(to.region, <<"Thane">>)
  \/ Includes(from.region, <<"Thane">>) /\ Includes(to.region, <<"Mumbai">>)

\* the chain with the Navi Mumbai rule tested before the South Mumbai rule
MumbaiAdjustNaviFirst(from, to, adj) ==
  IF ~MumbaiRoute(from, to) THEN adj
  ELSE IF NaviMumbaiRoute(from, to)
  THEN [distance |-> Scale(adj.distance, 130), note |-> "(Mumbai-Navi Mumbai route)"]
  ELSE IF SouthToSuburb(from, to)
  THEN [distance |-> Scale(adj.distance, 140), note |-> "(Mumbai traffic adjustment)"]
  ELSE IF CrossCity(from, to)
  THEN [distance |-> Scale(adj.distance, 150), note |-> "(Mumbai cross-city adjustment)"]
  ELSE IF ThaneRoute(from, to)
  THEN [distance |-> Scale(adj.distance, 125), note |-> "(Mumbai-Thane route)"]
  ELSE adj

\* the if / else if chain of the Mumbai adjustments, on the adjusted distance
MumbaiAdjust(from, to, adj) ==
  IF ~MumbaiRoute(from, to) THEN adj
  ELSE IF SouthToSuburb(from, to)
  THEN [distance |-> Scale(adj.distance, 140), note |-> "(Mumbai traffic adjustment)"]
  ELSE IF CrossCity(from, to)
  THEN [distance |-> Scale(adj.distance, 150), note |-> "(Mumbai cross-city adjustment)"]
  ELSE IF NaviMumbaiRoute(from, to)
  THEN [distance |-> Scale(adj.distance, 130), note |-> "(Mumbai-Navi Mumbai route)"]
  ELSE IF ThaneRoute(from, to)
  THEN [distance |-> Scale(adj.distance, 125), note |-> "(Mumbai-Thane route)"]
  ELSE adj

RoundDistance(x) == IF x > 100 * Km THEN RoundFive(x) ELSE RoundTenth(x)

\* A pincode sent as a JSON number passes the regular expression test, which
\* converts it to a string, and reaches getPincodeCoordinates as a number:
\* the lookup in pincodeCoordinates converts the key, pincode.substring is
\* not a function.
SubstringThrows(pincode, isNumber) ==
  isNumber /\ pincode \notin DOMAIN pincodeCoordinates

\* calculateDistance on the values of the request body; numbers holds the
\* ends ("from", "to") whose pincode is a JSON number.  An exception is
\* caught by the function's own catch block.
calculateDistanceJson(fromPincode, toPincode, numbers) ==
  IF \/ SubstringThrows(fromPincode, "from" \in numbers)
     \/ SubstringThrows(toPincode, "to" \in numbers)
  THEN [distance |-> NULL,
        error |-> "Distance calculation failed",
        from |-> [pincode |-> fromPincode],
        to |-> [pincode |-> toPincode]]
  ELSE
  LET from == getPincodeCoordinates(fromPincode)
      to == getPincodeCoordinates(toPincode)
      distance == haversine(from.lat, from.lon, to.lat, to.lon)
      adj == MumbaiAdjust(from, to,
               SameRegionAdjust(from, to, <<fromPincode, "from" \in numbers>>,
                                <<toPincode, "to" \in numbers>>, distance))
  IN [distance |-> RoundDistance(adj.distance),
      exactDistance |-> RoundTenth(distance),
      note |-> adj.note,
      from |-> [pincode |-> fromPincode, region |-> from.region,
                coordinates |-> [lat |-> from.lat, lon |-> from.lon]],
      to |-> [pincode |-> toPincode, region |-> to.region,
              coordinates |-> [lat |-> to.lat, lon |-> to.lon]]]

\* calculateDistance on two strings
calculateDistance(fromPincode, toPincode) ==
  calculateDistanceJson(fromPincode, toPincode, {})

\* ------------------------------------------------------- POST /distance
\* /^\d{6}$/
pincodeRegex(pin) == Len(pin) = 6 /\ \A k \in 1..Len(pin) : pin[k] \in 0..9

\* no pincode in the request body
NoPincode == <<>>

\* the pincodes requests are made with: for every tier of the lookup, for
\* every adjustment a six-digit pincode can reach, and one malformed
Pincodes ==
  {<<1, 1, 0, 0, 0, 1>>, <<1, 1, 0, 0, 0, 2>>, <<1, 1, 1, 0, 0, 1>>,
   <<1, 2, 3, 0, 0, 1>>, <<4, 0, 0, 0, 0, 1>>, <<4, 0, 0, 0, 5, 0>>,
   <<4, 0, 2, 0, 0, 1>>, <<4, 0, 2, 0, 0, 2>>, <<4, 0, 1, 1, 0, 7>>,
   <<4, 0, 3, 0, 0, 1>>, <<4, 1, 1, 0, 0, 1>>, <<4, 1, 1, 0, 0, 2>>,
   <<9, 9, 9, 9, 9, 9>>}

Malformed == <<4, 0, 0>>

\* the pincode of each user's profile (a required field of the schema)
UserPincode ==
  "u1" :> <<4, 0, 0, 0, 0, 1>> @@ "u2" :> <<4, 0, 0, 0, 5, 0>> @@ "u3" :> <<4, 0, 2, 0, 0, 1>>

DistanceBodies ==
  [fromPincode : Pincodes \cup {NoPincode, Malformed},
   toPincode : Pincodes \cup {NoPincode},
   sellerId : {NULL, "u3"},
   numbers : {{}}]

\* bodies whose pincodes are JSON strings or JSON numbers
JsonPincodes == {<<1, 1, 0, 0, 0, 1>>, <<1, 1, 0, 0, 0, 2>>, <<4, 0, 0, 0, 5, 0>>}

JsonBodies ==
  [fromPincode : JsonPincodes \cup {Malformed},
   toPincode : JsonPincodes,
   sellerId : {NULL},
   numbers : SUBSET {"from", "to"}]

Distance(p, u, body) ==
  /\ Begin(p)
  /\ LET viaSeller == body.sellerId # NULL /\ body.toPincode = NoPincode
         toPin == IF viaSeller /\ body.sellerId \in DOMAIN users
                  THEN UserPincode[body.sellerId] ELSE body.toPincode
         fromPin == IF body.fromPincode = NoPincode /\ u \in DOMAIN users
                    THEN UserPincode[u] ELSE body.fromPincode
     IN IF viaSeller /\ body.sellerId \notin DOMAIN users
        THEN Answer(p, Resp("distance", u, 0, "NotFound"))
        ELSE IF body.fromPincode = NoPincode /\ u \notin DOMAIN users
        THEN Answer(p, Resp("distance", u, 0, "NotFound"))
        ELSE IF fromPin = NoPincode \/ toPin = NoPincode
        THEN Answer(p, Resp("distance", u, 0, "BadRequest"))
        ELSE IF ~pincodeRegex(fromPin) \/ ~pincodeRegex(toPin)
        THEN Answer(p, Resp("distance", u, 0, "BadRequest"))
        ELSE Answer(p, [Resp("distance", u, 0, "ok") EXCEPT
                          !.data = calculateDistanceJson(fromPin, toPin,
                            {e \in body.numbers :
                               \/ e = "from" /\ body.fromPincode # NoPincode
                               \/ e = "to" /\ body.toPincode # NoPincode})])
  /\ UNCHANGED <<items, users, reqs, nextId>>

\* ---------------------------------------------------------- specifications
BuySteps ==
  \/ \E p \in Procs, u \in Users, i \in ItemIds : BuyFindItem(p, u, i)
  \/ \E p \in Procs : BuyFindBuyer(p)
  \/ \E p \in Procs : BuySaveItem(p)
  \/ \E p \in Procs : BuyUpdateBuyer(p)
  \/ \E p \in Procs : BuyUpdateSeller(p)
  \/ \E p \in Procs : BuyRespond(p)

\* the body of a create request as the client's form sends it
PlainBody == [buyer |-> NULL, soldAt |-> NULL, category |-> "Books",
              workingStatus |-> NULL, photos |-> MinPhotosSecond]

CreateStep == \E p \in Procs, u \in Users : Create(p, u, PlainBody)

UpdateStep ==
  \E p \in Procs, u \in Users, i \in ItemIds, body \in UpdateBodies : Update(p, u, i, body)

\* The item lifecycle, every request running to completion before the next
\* one is taken.
Next ==
  \/ CreateStep
  \/ BuySteps
  \/ UpdateStep
  \/ \E p \in Procs, u \in Users, i \in ItemIds : WatchAdd(p, u, i)
  \/ \E p \in Procs, u \in Users, i \in ItemIds : MarkSold(p, u, i)
  \/ \E p \in Procs, u \in Users, i \in ItemIds : Relist(p, u, i)
  \/ \E p \in Procs, u \in Users, i \in ItemIds : FixStatus(p, u, i)

Spec == Init /\ [][Next]_vars

\* The repair handlers on drifted states, one request at a time.
NextRepair ==
  \/ CreateStep
  \/ UpdateStep
  \/ \E p \in Procs, u \in Users : FixAllItems(p, u)
  \/ \E p \in Procs, u \in Users : SyncAll(p, u)
  \/ \E p \in Procs, u \in Users, i \in ItemIds : FixStatus(p, u, i)

SpecRepair == InitRepair /\ [][NextRepair]_vars

\* Purchases whose database calls interleave.
NextConc == CreateStep \/ BuySteps

SpecConc == InitConc /\ [][NextConc]_vars

\* Purchases in which an awaited database call may reject.
NextFault ==
  \/ CreateStep
  \/ BuySteps
  \/ \E p \in Procs : BuyFail(p)

SpecFault == InitFault /\ [][NextFault]_vars

\* Watchlist additions whose database calls interleave.
NextWatch ==
  \/ \E p \in Procs, u \in Users, i \in ItemIds : WatchFind(p, u, i)
  \/ \E p \in Procs, u \in Users, i \in ItemIds : UserWatchFind(p, u, i)
  \/ \E p \in Procs : WatchSave(p)

SpecWatch == InitWatch /\ [][NextWatch]_vars

\* Delivery-distance quotes.
NextDistance ==
  \E p \in Procs, u \in Users, body \in DistanceBodies : Distance(p, u, body)

SpecDistance == InitDistance /\ [][NextDistance]_vars

\* The sweep when a database call may reject.
NextSyncFault ==
  \/ CreateStep
  \/ UpdateStep
  \/ \E p \in Procs, u \in Users, fault \in SyncFaults : SyncAllFaulty(p, u, fault)

SpecSyncFault == InitSyncFault /\ [][NextSyncFault]_vars

\* Purchases, also by a requester whose user document is missing.
NextValidate ==
  \/ CreateStep
  \/ BuySteps
  \/ \E p \in Procs, i \in ItemIds : BuyFindItem(p, Ghost, i)

SpecValidate == InitValidate /\ [][NextValidate]_vars

\* ------------------------------------------------------------ properties
Quiescent == \A p \in Procs : reqs[p].pc = "idle"

OwnedWith(u, st) == {i \in DOMAIN items : items[i].seller = u /\ items[i].status = st}

\* activeListings and soldItems of every user against the items collection
ListsConsistent ==
  \A u \in DOMAIN users :
    /\ Range(users[u].activeListings) = OwnedWith(u, "available")
    /\ NoDup(users[u].activeListings)
    /\ Range(users[u].soldItems) = OwnedWith(u, "sold")

\* C1: every item has a buyer iff its status is sold, and a soldAt iff it
\* has a buyer.
C1_BuyerIffSold ==
  \A i \in DOMAIN items :
    /\ (items[i].buyer # NULL) <=> (items[i].status = "sold")
    /\ (items[i].soldAt # NULL) <=> (items[i].buyer # NULL)

\* C2: of two completed purchases of the same existing item by different
\* buyers, none of them the seller, exactly one succeeded, the other was
\* answered NotAvailable, the item is not in the loser's boughtItems and the
\* winner is the item's buyer.
C2_PurchaseExclusion ==
  \A p, q \in Procs :
    (/\ p # q
     /\ resp[p].op = "buy" /\ resp[q].op = "buy"
     /\ resp[p].item = resp[q].item
     /\ resp[p].user # resp[q].user
     /\ resp[p].item \in DOMAIN items
     /\ items[resp[p].item].seller \notin {resp[p].user, resp[q].user}
     /\ resp[q].result # "NotFound"
     /\ resp[p].result = "ok")
    => /\ resp[q].result = "NotAvailable"
       /\ resp[q].item \notin Range(users[resp[q].user].boughtItems)
       /\ items[resp[p].item].buyer = resp[p].user

\* the reference lists after buyer b has bought item i
PurchasePost(b, i) ==
  /\ i \in Range(users[items[i].seller].soldItems)
  /\ i \notin Range(users[items[i].seller].activeListings)
  /\ i \in Range(users[b].boughtItems)
  /\ i \notin Range(users[b].watchlist)

\* C3: a successful purchase of an available item, by either purchase route,
\* leaves the item in the seller's soldItems and the buyer's boughtItems and
\* in neither the seller's activeListings nor the buyer's watchlist.
C3_PurchaseLists ==
  [][\A u \in Users, i \in ItemIds :
       (\/ /\ reqs[1].pc = "respond" /\ reqs[1].user = u /\ reqs[1].item = i
           /\ BuyRespond(1)
        \/ /\ i \in DOMAIN items /\ items[i].status = "available"
           /\ MarkSold(1, u, i) /\ resp'[1].result = "ok")
       => PurchasePost(u, i)']_vars

\* C4: create, purchase, delist and relist each take a state in which every
\* user's activeListings and soldItems match the items collection to such a
\* state.
C4_ListsMatchItems ==
  [][\A u \in Users, i \in ItemIds :
       (/\ ListsConsistent
        /\ \/ \E body \in CreateBodies : Create(1, u, body)
           \/ reqs[1].pc = "respond" /\ BuyRespond(1)
           \/ MarkSold(1, u, i)
           \/ /\ i \in DOMAIN items /\ items[i].status = "available"
              /\ Update(1, u, i, [field |-> "status", value |-> "unavailable"])
           \/ Relist(1, u, i))
       => ListsConsistent']_vars

\* C5: once a purchase has been answered, an item with status sold is in its
\* buyer's boughtItems and its seller's soldItems and not in the seller's
\* activeListings; a purchase that failed half way left the item available.
C5_NoHalfAppliedPurchase ==
  Quiescent =>
    \A i \in DOMAIN items :
      (items[i].status = "sold" /\ items[i].buyer # NULL)
      => /\ i \in Range(users[items[i].buyer].boughtItems)
         /\ i \in Range(users[items[i].seller].soldItems)
         /\ i \notin Range(users[items[i].seller].activeListings)

\* C6: a purchase attempt, by either route, on an item that is not available
\* is answered NotAvailable and changes no item and no user (stated for the
\* buyers other than the seller; the seller's own attempts are C7's).
C6_NotAvailableRejected ==
  [][\A u \in Users, i \in ItemIds :
       (/\ i \in DOMAIN items /\ items[i].status # "available"
        /\ items[i].seller # u
        /\ (BuyFindItem(1, u, i) \/ MarkSold(1, u, i)))
       => /\ resp'[1].result = "NotAvailable"
          /\ reqs'[1].pc = "idle"
          /\ UNCHANGED <<items, users>>]_vars

\* C7 as stated: a purchase attempt by the item's seller is answered
\* SelfPurchase whatever the item's status, and the status is unchanged.
C7_SelfPurchaseAlways ==
  [][\A u \in Users, i \in ItemIds :
       (/\ i \in DOMAIN items /\ items[i].seller = u
        /\ (BuyFindItem(1, u, i) \/ MarkSold(1, u, i)))
       => /\ resp'[1].result = "SelfPurchase"
          /\ reqs'[1].pc = "idle"
          /\ items'[i].status = items[i].status]_vars

\* C7 as amended: a purchase attempt by the item's seller always fails and
\* changes no item and no user; the answer is SelfPurchase when the item
\* passes the route's status check (status available for POST /:id/buy, status
\* not sold for PUT /:id/sold) and NotAvailable when it does not.
C7_SelfPurchaseFails ==
  [][\A u \in Users, i \in ItemIds :
       (/\ i \in DOMAIN items /\ items[i].seller = u
        /\ (BuyFindItem(1, u, i) \/ MarkSold(1, u, i)))
       => /\ reqs'[1].pc = "idle"
          /\ resp'[1].user = u /\ resp'[1].item = i
          /\ UNCHANGED <<items, users>>
          /\ resp'[1].op = "buy" =>
               resp'[1].result = IF items[i].status = "available"
                                 THEN "SelfPurchase" ELSE "NotAvailable"
          /\ resp'[1].op = "sold" =>
               resp'[1].result = IF items[i].status # "sold"
                                 THEN "SelfPurchase" ELSE "NotAvailable"
          /\ resp'[1].op \in {"buy", "sold"}]_vars

\* a seller has just been refused the purchase of their own available item
C7_Witness ==
  /\ resp[1].op = "buy"
  /\ resp[1].result = "SelfPurchase"
  /\ resp[1].item \in DOMAIN items
  /\ items[resp[1].item].seller = resp[1].user
  /\ items[resp[1].item].status = "available"

\* C8: an item that was bought (it is sold, has a buyer and is in that
\* buyer's boughtItems) keeps status sold and keeps its buyer.
C8_SoldIsTerminal ==
  [][\A i \in DOMAIN items :
       (/\ items[i].status = "sold" /\ items[i].buyer # NULL
        /\ i \in Range(users[items[i].buyer].boughtItems))
       => /\ i \in DOMAIN items'
          /\ items'[i].status = "sold"
          /\ items'[i].buyer = items[i].buyer]_vars

\* C9: when sync-all has answered with no error, every user's activeListings
\* holds exactly the user's available items and soldItems exactly the
\* user's sold items.
C9_SyncAllReconciles ==
  (resp[1].op = "syncall" /\ resp[1].result = "ok" /\ resp[1].errors = 0)
  => \A u \in DOMAIN users :
       /\ Range(users[u].activeListings) = OwnedWith(u, "available")
       /\ Range(users[u].soldItems) = OwnedWith(u, "sold")

\* C10: a reconciliation that directly follows a reconciliation of the same
\* kind (for fix-all-items: of the same user) fixes nothing and changes
\* nothing.
C10_ReconcileIdempotent ==
  [][(/\ nops' = nops + 1
      /\ resp[1].op \in {"syncall", "fixall"}
      /\ resp'[1].op = resp[1].op
      /\ resp[1].op = "fixall" => resp'[1].user = resp[1].user)
     => /\ resp'[1].fixedItems = 0
        /\ resp'[1].fixedRefs = 0
        /\ UNCHANGED <<items, users>>]_vars

\* C11: no user's watchlist holds the same item id twice, also after
\* add-to-watchlist requests of one user that overlap.
C11_WatchlistNoDuplicates ==
  \A u \in DOMAIN users : NoDup(users[u].watchlist)

\* a distance has just been quoted
Quoted == resp[1].op = "distance" /\ resp[1].result = "ok"

\* C12: the distance quoted from a pincode to the same pincode is exactly
\* 1 km, whatever region the pincode resolves to.
C12_SamePincodeIsOneKm ==
  (Quoted /\ resp[1].data.from.pincode = resp[1].data.to.pincode)
  => resp[1].data.distance = Km

\* C13: the quote from 400001 to 400050 carries the note '(Mumbai traffic
\* adjustment)' and a distance strictly greater than the haversine distance
\* of the two resolved coordinates.
C13_MumbaiTrafficScenario ==
  (/\ Quoted
   /\ resp[1].data.from.pincode = <<4, 0, 0, 0, 0, 1>>
   /\ resp[1].data.to.pincode = <<4, 0, 0, 0, 5, 0>>)
  => /\ resp[1].data.note = "(Mumbai traffic adjustment)"
     /\ resp[1].data.distance >
          haversine(resp[1].data.from.coordinates.lat, resp[1].data.from.coordinates.lon,
                    resp[1].data.to.coordinates.lat, resp[1].data.to.coordinates.lon)

\* C14: the distance quoted from A to B is the distance calculateDistance
\* returns from B to A.
C14_DistanceSymmetric ==
  Quoted => resp[1].data.distance =
              calculateDistance(resp[1].data.to.pincode, resp[1].data.from.pincode).distance

\* a quote between two regions to which a Mumbai multiplier was applied
C14_Witness ==
  /\ Quoted
  /\ resp[1].data.from.region = <<"Navi", "Mumbai">>
  /\ resp[1].data.to.region = <<"Mumbai">>
  /\ resp[1].data.note = "(Mumbai-Navi Mumbai route)"
  /\ resp[1].data.distance > 20 * Km

\* what the tiers of the lookup give for a pincode: the entry of the first
\* table, in the order curated, regional, coarse, whose key it matches
TierEntry(pin, r) ==
  /\ pin \in DOMAIN pincodeCoordinates => r = pincodeCoordinates[pin]
  /\ (pin \notin DOMAIN pincodeCoordinates
      /\ SubSeq(pin, 1, 3) \in DOMAIN detailedRegionMap)
     => r = detailedRegionMap[SubSeq(pin, 1, 3)]
  /\ (pin \notin DOMAIN pincodeCoordinates
      /\ SubSeq(pin, 1, 3) \notin DOMAIN detailedRegionMap
      /\ SubSeq(pin, 1, 2) \in DOMAIN regionMap)
     => r = regionMap[SubSeq(pin, 1, 2)]
  /\ (pin \notin DOMAIN pincodeCoordinates
      /\ SubSeq(pin, 1, 3) \notin DOMAIN detailedRegionMap
      /\ SubSeq(pin, 1, 2) \notin DOMAIN regionMap)
     => r.region = <<"Central", "India">>

Resolved(end) ==
  [lat |-> end.coordinates.lat, lon |-> end.coordinates.lon, region |-> end.region]

\* C15: both pincodes of a quote are resolved to the entry of the first tier
\* that matches, and a pincode quoted twice in a row resolves to the same
\* entry.
C15_TieredLookup ==
  [][(resp'[1].op = "distance" /\ resp'[1].result = "ok")
     => /\ TierEntry(resp'[1].data.from.pincode, Resolved(resp'[1].data.from))
        /\ TierEntry(resp'[1].data.to.pincode, Resolved(resp'[1].data.to))
        /\ (Quoted /\ resp[1].data.from.pincode = resp'[1].data.from.pincode)
           => Resolved(resp[1].data.from) = Resolved(resp'[1].data.from)]_vars

\* a quote whose ends were resolved by the regional table and by the default
C15_Witness ==
  /\ Quoted
  /\ resp[1].data.from.pincode = <<4, 0, 2, 0, 0, 1>>
  /\ resp[1].data.from.region = <<"Navi", "Mumbai">>
  /\ resp[1].data.to.pincode = <<9, 9, 9, 9, 9, 9>>
  /\ resp[1].data.to.region = <<"Central", "India">>

\* C16: whichever database call of a sync-all run rejects, the run is
\* answered with the summary, the rejection is in its error records and the
\* entities after the failing one are still processed.
C16_SyncAllAlwaysSummary ==
  [][\A u \in Users, fault \in SyncFaults :
       SyncAllFaulty(1, u, fault)
       => /\ resp'[1].result = "ok"
          /\ fault.at \in {"loadUsers", "loadSold"} => resp'[1].errors >= 1]_vars

\* the outcome of the validation in the order item exists, buyer exists,
\* status is available, buyer is not the seller
FirstViolated(u, i) ==
  IF i \notin DOMAIN items THEN "NotFound"
  ELSE IF u \notin DOMAIN users THEN "NotFound"
  ELSE IF items[i].status # "available" THEN "NotAvailable"
  ELSE IF items[i].seller = u THEN "SelfPurchase"
  ELSE "ok"

\* C17: a purchase attempt that POST /:id/buy rejects is answered with the
\* error of the first violated check in the order item exists, buyer exists,
\* status is available, buyer is not the seller; an attempt that violates
\* none is not rejected.
C17_ValidationOrder ==
  [][\A u \in Users \cup {Ghost}, i \in ItemIds :
       (\/ BuyFindItem(1, u, i)
        \/ /\ reqs[1].pc = "findBuyer" /\ reqs[1].user = u /\ reqs[1].item = i
           /\ BuyFindBuyer(1))
       => IF reqs'[1].pc = "idle"
          THEN resp'[1].result = FirstViolated(u, i)
          ELSE FirstViolated(u, i) \in {"ok", "NotFound"}]_vars

\* C18: a relist request by someone other than the item's seller is
\* answered NotOwner, one for an item that is not unavailable fails, and both
\* change no item and no list; any other relist of an existing item makes it
\* available with its id exactly once in the seller's activeListings.
C18_Relist ==
  [][\A u \in Users, i \in ItemIds :
       (i \in DOMAIN items /\ Relist(1, u, i))
       => IF items[i].seller # u
          THEN resp'[1].result = "NotOwner" /\ UNCHANGED <<items, users>>
          ELSE IF items[i].status # "unavailable"
          THEN resp'[1].result \notin {"ok", "NotOwner"} /\ UNCHANGED <<items, users>>
          ELSE /\ resp'[1].result = "ok"
               /\ items' = [items EXCEPT ![i].status = "available"]
               /\ Count(users'[u].activeListings, i) = 1
               /\ \A v \in Users \ {u} : users'[v] = users[v]]_vars

\* a seller has relisted an item whose id had stayed in activeListings
C18_Witness ==
  /\ resp[1].op = "relist" /\ resp[1].result = "ok"
  /\ resp[1].item \in DOMAIN items
  /\ items[resp[1].item].status = "available"
  /\ items[resp[1].item].seller = resp[1].user
  /\ users[resp[1].user].activeListings = <<resp[1].item>>

\* C19: a request to delist an item (PUT /:id with status unavailable) is
\* answered NotOwner when the requester is not the seller, is refused when the
\* item is not available, and otherwise makes the item unavailable.
C19_Delist ==
  [][\A u \in Users, i \in ItemIds :
       (/\ i \in DOMAIN items
        /\ Update(1, u, i, [field |-> "status", value |-> "unavailable"]))
       => IF items[i].seller # u
          THEN resp'[1].result = "NotOwner" /\ UNCHANGED items
          ELSE IF items[i].status # "available"
          THEN resp'[1].result # "ok" /\ UNCHANGED items
          ELSE resp'[1].result = "ok" /\ items'[i].status = "unavailable"]_vars

\* C20: an item goes from unavailable to available only in a request made by
\* the item's seller.
C20_RelistBySellerOnly ==
  [][\A i \in DOMAIN items :
       (/\ items[i].status = "unavailable"
        /\ i \in DOMAIN items'
        /\ items'[i].status = "available")
       => resp'[1].user = items[i].seller]_vars

\* Items sold through PUT /:id/sold, put back on sale or handed to another
\* seller through PUT /:id, and sold again, before sync-all runs.
ResellBodies == {[field |-> "status", value |-> "available"],
                 [field |-> "seller", value |-> "u1"]}

NextResell ==
  \/ CreateStep
  \/ \E p \in Procs, i \in ItemIds : MarkSold(p, "u2", i)
  \/ \E p \in Procs, u \in Users, i \in ItemIds, body \in ResellBodies :
       Update(p, u, i, body)
  \/ \E p \in Procs : SyncAll(p, "u1")

SpecResell == InitResell /\ [][NextResell]_vars

\* Purchases that an error may stop half way, followed by sync-all.
NextRecover ==
  \/ CreateStep
  \/ BuySteps
  \/ \E p \in Procs : BuyFail(p)
  \/ \E p \in Procs, u \in Users : SyncAll(p, u)

SpecRecover == InitRecover /\ [][NextRecover]_vars

\* Purchases of both kinds whose database calls interleave.
SoldSteps ==
  \/ \E p \in Procs, u \in Users, i \in ItemIds : SoldFindItem(p, u, i)
  \/ \E p \in Procs : SoldSaveItem(p)
  \/ \E p \in Procs : SoldUpdateBuyer(p)
  \/ \E p \in Procs : SoldUpdateSeller(p)
  \/ \E p \in Procs : SoldRespond(p)

NextConcSold == CreateStep \/ BuySteps \/ SoldSteps

SpecConcSold == InitConcSold /\ [][NextConcSold]_vars

\* Create requests of every form, through either router.
NextCreate ==
  \/ \E p \in Procs, u \in Users, body \in CreateBodies \cup FormBodies :
       Create(p, u, body)
  \/ \E p \in Procs, u \in Users, body \in CreateBodies \cup FormBodies :
       CreateSecond(p, u, body)

SpecCreate == InitCreate /\ [][NextCreate]_vars

\* fix-all-items overlapping with creates and purchases.
FixAllSteps ==
  \/ \E p \in Procs, u \in Users : FixAllLoad(p, u)
  \/ \E p \in Procs : FixAllSave(p)
  \/ \E p \in Procs : FixAllSetLists(p)

NextConcFix == CreateStep \/ BuySteps \/ FixAllSteps

SpecConcFix == InitConcFix /\ [][NextConcFix]_vars

\* GET /listings on any stored array.  The activeListings path is an array
\* of ids on which the schema puts no constraint, and the handler is a
\* function of that array and of the items collection: a run starts from a
\* database holding two items of any owner and status, and any stored
\* array of u1 up to MaxStored ids, with ids of items that are not u1's
\* available ones (StaleId is the id of an item that no longer exists),
\* ids left out, and ids repeated.
StaleId == Len(ItemOrder) + 1

RECURSIVE SeqsUpTo(_, _)
SeqsUpTo(S, n) ==
  IF n = 0 THEN {<<>>}
  ELSE LET shorter == SeqsUpTo(S, n - 1)
       IN shorter \cup {Append(s, x) : s \in shorter, x \in S}

InitListings ==
  /\ items \in [ItemIds -> [seller : {"u1", "u2"}, buyer : {NULL},
                             status : {"available", "unavailable"},
                             soldAt : {NULL}]]
  /\ \E stored \in SeqsUpTo(ItemIds \cup {StaleId}, MaxStored) :
       users = [u \in Users |->
                  IF u = "u1" THEN [NewUser EXCEPT !.activeListings = stored]
                  ELSE NewUser]
  /\ reqs = [p \in Procs |-> Idle]
  /\ resp = [p \in Procs |-> NoResp]
  /\ nextId = StaleId + 1
  /\ nops = 0
  /\ mode = "listings"

NextListings ==
  \/ \E p \in Procs, u \in Users : GetListings(p, u)
  \/ \E p \in Procs, u \in Users, i \in ItemIds, body \in ResellBodies :
       Update(p, u, i, body)

SpecListings == InitListings /\ [][NextListings]_vars

\* The Mumbai corrections of calculateDistance on every pair of region
\* names of the lookup tables.  The chain is a function of the two region
\* names and of the distance adjusted so far: a run starts with one pair of
\* names and one distance, and applies the chain to them.
TableRegions ==
  {pincodeCoordinates[k].region : k \in DOMAIN pincodeCoordinates}
    \cup {detailedRegionMap[k].region : k \in DOMAIN detailedRegionMap}
    \cup {regionMap[k].region : k \in DOMAIN regionMap}
    \cup {CentralIndia.region}

\* the distances the chain is applied to: a regional minimum and a longer one
AdjustedDistances == {2 * Km, 12 * Km}

InitRules ==
  /\ items = <<>>
  /\ users = [u \in Users |-> NewUser]
  /\ \E r1 \in TableRegions, r2 \in TableRegions, x \in AdjustedDistances :
       reqs = [p \in Procs |->
                 IF p = 1
                 THEN [pc |-> "adjust", user |-> NULL, item |-> 0,
                       doc |-> [from |-> [region |-> r1], to |-> [region |-> r2],
                                adj |-> [distance |-> x, note |-> ""]]]
                 ELSE Idle]
  /\ resp = [p \in Procs |-> NoResp]
  /\ nextId = 1
  /\ nops = 0
  /\ mode = "rules"

\* "Special handling for Mumbai regions" applied to the pair at hand
MumbaiCorrection(p) ==
  /\ reqs[p].pc = "adjust"
  /\ LET in == reqs[p].doc
         out == MumbaiAdjust(in.from, in.to, in.adj)
     IN Answer(p, [Resp("adjust", NULL, 0, "ok") EXCEPT
                     !.data = [distance |-> out.distance, note |-> out.note,
                               from |-> in.from, to |-> in.to]])
  /\ reqs' = [reqs EXCEPT ![p] = Idle]
  /\ UNCHANGED <<items, users, nextId, nops, mode>>

NextRules == \E p \in Procs : MumbaiCorrection(p)

SpecRules == InitRules /\ [][NextRules]_vars

\* Delivery-distance quotes for pincodes of either JSON type.
NextJson ==
  \E p \in Procs, u \in Users, body \in JsonBodies : Distance(p, u, body)

SpecJson == InitJson /\ [][NextJson]_vars

\* Purchases, updates that move an item to another buyer or back on sale,
\* and sync-all.
SweepBodies ==
  [field : {"buyer"}, value : Users] \cup [field : {"status"}, value : {"available"}]

NextSweep ==
  \/ CreateStep
  \/ BuySteps
  \/ \E p \in Procs, u \in Users, i \in ItemIds, body \in SweepBodies :
       Update(p, u, i, body)
  \/ \E p \in Procs, u \in Users : SyncAll(p, u)

SpecSweep == InitSweep /\ [][NextSweep]_vars

\* Create requests, also with the token of a user whose record is gone.
NextGhost ==
  \/ \E p \in Procs, u \in Users \cup {Ghost}, body \in FormBodies :
       Create(p, u, body)
  \/ \E p \in Procs, u \in Users \cup {Ghost}, body \in FormBodies :
       CreateSecond(p, u, body)

SpecGhost == InitGhost /\ [][NextGhost]_vars

\* sync-all requested through its route on databases that updates have let
\* drift.
NextAdmin ==
  \/ CreateStep
  \/ \E p \in Procs, u \in Users, i \in ItemIds, body \in SweepBodies :
       Update(p, u, i, body)
  \/ \E p \in Procs, reqUser \in Users \cup {Ghost, NULL}, rejects \in BOOLEAN :
       AdminSyncAll(p, reqUser, rejects)

SpecAdmin == InitAdmin /\ [][NextAdmin]_vars

\* ------------------------------------------------------------ C21, C22
\* the status repair as the specification words it
RepairedStatus(it) ==
  IF it.buyer # NULL /\ it.status # "sold"
  THEN [it EXCEPT !.status = "sold",
                  !.soldAt = IF it.soldAt = NULL THEN DATE ELSE it.soldAt]
  ELSE IF it.buyer = NULL /\ it.status # "available"
  THEN [it EXCEPT !.status = "available"]
  ELSE it

\* a step that is a successful fix-all-items (op "fixall") or sync-all
RepairDone(op) ==
  /\ nops' = nops + 1
  /\ resp'[1].op = op
  /\ resp'[1].result = "ok"

\* the items a repair run covers: the caller's for fix-all-items, all of
\* them for sync-all (every item's seller is a registered user)
Covered(op, i) == op = "syncall" \/ items[i].seller = resp'[1].user

\* C21: fix-all-items and sync-all leave every covered item as the status
\* repair describes (sold, with soldAt stamped if missing, when it has a
\* buyer and is not sold; available when it has no buyer and is not
\* available; untouched otherwise), they leave the other items alone, and
\* repairing the result a second time changes nothing.
C21_StatusRepair ==
  [][\A op \in {"fixall", "syncall"} : RepairDone(op) =>
       /\ DOMAIN items' = DOMAIN items
       /\ \A i \in DOMAIN items :
            /\ items'[i] = IF Covered(op, i) THEN RepairedStatus(items[i])
                           ELSE items[i]
            /\ Covered(op, i) =>
                 /\ FixAllRepair(items'[i]) = items'[i]
                 /\ SyncRepair(items'[i]) = items'[i]
                 /\ ~SyncNeedsFix(items'[i])]_vars

\* fix-all-items has turned an item with a buyer into a sold, dated item
C21_Witness ==
  /\ resp[1].op = "fixall"
  /\ resp[1].result = "ok"
  /\ resp[1].fixedItems > 0
  /\ \E i \in DOMAIN items :
       /\ items[i].seller = resp[1].user
       /\ items[i].buyer # NULL
       /\ items[i].status = "sold"
       /\ items[i].soldAt = DATE

\* C22: no repair operation (fix-status, fix-all-items, sync-all) changes
\* the buyer of any item, whatever it answers.
C22_RepairKeepsBuyer ==
  [][(nops' = nops + 1 /\ resp'[1].op \in {"fixstatus", "fixall", "syncall"}) =>
       /\ DOMAIN items' = DOMAIN items
       /\ \A i \in DOMAIN items : items'[i].buyer = items[i].buyer]_vars

\* sync-all has repaired the status of an item that keeps its buyer
C22_Witness ==
  /\ resp[1].op = "syncall"
  /\ resp[1].fixedItems > 0
  /\ \E i \in DOMAIN items : items[i].buyer # NULL /\ items[i].status = "sold"

\* ----------------------------------------------------------------- C23
\* the same ids the same number of times, in any order
SameUpToOrder(a, b) ==
  /\ Len(a) = Len(b)
  /\ \A x \in Range(a) \cup Range(b) : Count(a, x) = Count(b, x)

\* C23: in sync-all's pass over a user, the stored activeListings and
\* soldItems are overwritten with the recomputed lists whenever either
\* stored array differs from its recomputed list as a set, and are left as
\* they were when both are equal to the recomputed lists up to order.
C23_SyncOverwrites ==
  [][(nops' = nops + 1 /\ resp'[1].op = "syncall") =>
       \A u \in DOMAIN users :
         LET lists == SyncLists(items, u)
             stored == users[u]
         IN /\ (\/ Range(stored.activeListings) # Range(lists.activeListings)
                 \/ Range(stored.soldItems) # Range(lists.soldItems))
                => /\ users'[u].activeListings = lists.activeListings
                   /\ users'[u].soldItems = lists.soldItems
            /\ (/\ SameUpToOrder(stored.activeListings, lists.activeListings)
                 /\ SameUpToOrder(stored.soldItems, lists.soldItems))
                => /\ users'[u].activeListings = stored.activeListings
                   /\ users'[u].soldItems = stored.soldItems]_vars

\* ----------------------------------------------------------------- C24
\* C24: when sync-all has completed with an empty errors list, every item
\* with status sold whose buyer is an existing user is in that buyer's
\* boughtItems, also when the purchase was stopped before the buyer's list
\* was updated.
C24_SyncAllRestoresBought ==
  [][(nops' = nops + 1 /\ resp'[1].op = "syncall" /\ resp'[1].errors = 0) =>
       \A i \in DOMAIN items' :
         (items'[i].status = "sold" /\ items'[i].buyer \in DOMAIN users')
           => i \in Range(users'[items'[i].buyer].boughtItems)]_vars

\* sync-all has answered after a purchase that stopped between the save of
\* the item and the update of the buyer: it rewrote the seller's lists (one
\* reference fix) and added the item to the buyer's boughtItems (another)
C24_Witness ==
  /\ Quiescent
  /\ resp[1].op = "syncall"
  /\ resp[1].errors = 0
  /\ resp[1].fixedRefs = 2
  /\ \E i \in DOMAIN items :
       /\ items[i].status = "sold"
       /\ items[i].buyer \in DOMAIN users
       /\ users[items[i].buyer].boughtItems = <<i>>
       /\ items[i].seller \in DOMAIN users
       /\ users[items[i].seller].soldItems = <<i>>

\* ----------------------------------------------------------------- C25
\* C25: after any sequence of purchases (POST /:id/buy or PUT /:id/sold,
\* repeated or interleaved), an item id appears at most once in any user's
\* boughtItems and at most once in any user's soldItems.
C25_PurchaseListsNoDuplicates ==
  Quiescent =>
    \A u \in DOMAIN users :
      /\ NoDup(users[u].boughtItems)
      /\ NoDup(users[u].soldItems)

\* ----------------------------------------------------------------- C26
\* C26: a successful create yields a new item with status available, no
\* buyer and no soldAt, whose seller is the requester whatever the request
\* body carries, and whose id appears exactly once in that seller's
\* activeListings.
C26_CreatedItem ==
  [][(nops' = nops + 1 /\ resp'[1].op = "create" /\ resp'[1].result = "ok") =>
       LET id == resp'[1].item
           u == resp'[1].user
       IN /\ id \in DOMAIN items' \ DOMAIN items
          /\ items'[id].status = "available"
          /\ items'[id].buyer = NULL
          /\ items'[id].soldAt = NULL
          /\ items'[id].seller = u
          /\ Count(users'[u].activeListings, id) = 1]_vars

\* ----------------------------------------------------------------- C27
\* the requests the specification says are rejected
MustReject(body) ==
  \/ /\ body.workingStatus = NULL
     /\ body.category \in {"Devices", "Art", "Sports Accessories"}
  \/ body.photos \notin 1..4

\* a create request with this body was answered in this step
Created(u, body) == Create(1, u, body) \/ CreateSecond(1, u, body)

\* C27: a create is rejected, and stores no item, when workingStatus is
\* missing and the category is Devices, Art or Sports Accessories, or when
\* the number of photos is not between 1 and 4; it is accepted, and stores
\* the item, for every other category without workingStatus and for every
\* photo count from 1 to 4.
C27_CreateValidation ==
  [][\A u \in Users, body \in FormBodies :
       Created(u, body) =>
         IF MustReject(body)
         THEN resp'[1].result # "ok" /\ items' = items
         ELSE resp'[1].result = "ok" /\ DOMAIN items' # DOMAIN items]_vars

\* ----------------------------------------------------------------- C28
\* C28: when a reconciliation of seller S has run together with a purchase
\* or a create on one of S's items, then once both have completed the
\* outcome is that of some serial execution: S.activeListings holds exactly
\* S's available items and S.soldItems exactly S's sold items.
C28_ReconcileSerializable ==
  \A p \in Procs, q \in Procs :
    (/\ Quiescent
     /\ p # q
     /\ resp[p].op = "fixall" /\ resp[p].result = "ok"
     /\ resp[q].op \in {"buy", "create"} /\ resp[q].result = "ok"
     /\ items[resp[q].item].seller = resp[p].user)
    => LET S == resp[p].user
       IN /\ Range(users[S].activeListings) = OwnedWith(S, "available")
          /\ Range(users[S].soldItems) = OwnedWith(S, "sold")

C30_NeverPending ==
  \A i \in DOMAIN items : items[i].status \in {"available", "sold", "unavailable"}

\* ----------------------------------------------------------------- C31
\* the regional minimum as the specification words it, in km
RegionalMinimum(region) ==
  IF \E city \in {"Mumbai", "Delhi", "Bengaluru", "Chennai", "Kolkata", "Hyderabad"} :
       Includes(region, <<city>>)
  THEN 2 ELSE 3

MumbaiNotes ==
  {"(Mumbai traffic adjustment)", "(Mumbai cross-city adjustment)",
   "(Mumbai-Navi Mumbai route)", "(Mumbai-Thane route)"}

\* C31: for two different pincodes that resolve to the same region name
\* with a haversine distance below 5 km, the distance before the Mumbai
\* corrections and the rounding is the larger of the haversine distance
\* and the regional minimum (2 km for a region whose name contains Mumbai,
\* Delhi, Bengaluru, Chennai, Kolkata or Hyderabad, 3 km otherwise); when
\* the haversine distance is 5 km or more, or the regions differ, it is the
\* haversine distance.  Where no Mumbai correction follows, the quoted
\* distance is that value rounded.
C31_RegionalMinimum ==
  (Quoted /\ resp[1].data.from.pincode # resp[1].data.to.pincode) =>
    LET d == resp[1].data
        from == Resolved(d.from)
        to == Resolved(d.to)
        raw == haversine(from.lat, from.lon, to.lat, to.lon)
        floor == RegionalMinimum(from.region) * Km
        expected == IF from.region = to.region /\ raw < 5 * Km
                    THEN (IF raw >= floor THEN raw ELSE floor)
                    ELSE raw
    IN /\ SameRegionAdjust(from, to, d.from.pincode, d.to.pincode, raw).distance
            = expected
       /\ d.note \notin MumbaiNotes => d.distance = RoundDistance(expected)

\* a quote between two pincodes of Delhi, raised to the 2 km of a large city
C31_Witness ==
  /\ Quoted
  /\ resp[1].data.from.pincode # resp[1].data.to.pincode
  /\ resp[1].data.from.region = <<"Delhi">>
  /\ resp[1].data.to.region = <<"Delhi">>
  /\ resp[1].data.note = "(same city)"
  /\ resp[1].data.distance = 2 * Km

\* ----------------------------------------------------------------- C32
\* the conditions of the four rules in the listed order, for two regions
RuleHolds(k, from, to) ==
  CASE k = 1 -> SouthToSuburb(from, to)
    [] k = 2 -> CrossCity(from, to)
    [] k = 3 -> NaviMumbaiRoute(from, to)
    [] k = 4 -> ThaneRoute(from, to)

RulePercent == <<140, 150, 130, 125>>

RuleNote ==
  <<"(Mumbai traffic adjustment)", "(Mumbai cross-city adjustment)",
    "(Mumbai-Navi Mumbai route)", "(Mumbai-Thane route)">>

\* C32 as claimed: for every pair of region names of the lookup tables at
\* most one of the four Mumbai rules has a true condition.
C32_RulesExclusive ==
  reqs[1].pc = "adjust" =>
    Cardinality({k \in 1..4 : RuleHolds(k, reqs[1].doc.from, reqs[1].doc.to)}) <= 1

\* C32 as amended: the conditions of the rules overlap, and for every pair
\* of region names of the lookup tables that passes the Mumbai-area test
\* exactly the first rule in the listed order whose condition holds is
\* applied, once; a pair that fails the test, or matches no rule, is left
\* as it was.
C32_FirstMatchWins ==
  [][(reqs[1].pc = "adjust" /\ reqs'[1].pc = "idle") =>
       LET in == reqs[1].doc
           matching == {k \in 1..4 : RuleHolds(k, in.from, in.to)}
           first == CHOOSE k \in matching : \A j \in matching : k <= j
       IN IF MumbaiRoute(in.from, in.to) /\ matching # {}
          THEN /\ resp'[1].data.distance = (in.adj.distance \div 100) * RulePercent[first]
               /\ resp'[1].data.note = RuleNote[first]
          ELSE /\ resp'[1].data.distance = in.adj.distance
               /\ resp'[1].data.note = in.adj.note]_vars

\* South Mumbai to Navi Mumbai matches the first and the third rule; the
\* first was applied
C32_Witness ==
  /\ resp[1].op = "adjust"
  /\ resp[1].data.from.region = <<"Mumbai", "South">>
  /\ resp[1].data.to.region = <<"Navi", "Mumbai">>
  /\ resp[1].data.note = "(Mumbai traffic adjustment)"
  /\ resp[1].data.distance = 12 * (Km \div 100) * 140

\* ----------------------------------------------------------------- C33
\* C33: every POST /distance request whose two pincodes pass the six-digit
\* test is answered with a numeric distance, never with the {distance:
\* null, error} result, whatever the JSON type of the pincodes sent.
C33_AlwaysNumericDistance ==
  Quoted => "error" \notin DOMAIN resp[1].data

\* ----------------------------------------------------------------- C34
MumbaiSubNames ==
  {<<"Mumbai", "South">>, <<"Mumbai", "West">>,
   <<"Mumbai", "Northwest">>, <<"Mumbai", "Northeast">>}

AllowedNotes ==
  {"", "(same area)", "(same city)", "(same region)",
   "(Mumbai-Navi Mumbai route)", "(Mumbai-Thane route)"}

\* C34: the note of every quote is empty, '(same area)', '(same city)',
\* '(same region)', '(Mumbai-Navi Mumbai route)' or '(Mumbai-Thane route)',
\* and no pincode resolves to 'Mumbai South', 'Mumbai West', 'Mumbai
\* Northwest' or 'Mumbai Northeast': neither an end of a quote nor any of the
\* six-digit keys the regional table lists under those names.
C34_NotesAndRegions ==
  /\ Quoted =>
       /\ resp[1].data.note \in AllowedNotes
       /\ resp[1].data.from.region \notin MumbaiSubNames
       /\ resp[1].data.to.region \notin MumbaiSubNames
  /\ \A k \in DOMAIN detailedRegionMap :
       Len(k) = 6 => getPincodeCoordinates(k).region \notin MumbaiSubNames

\* a quote from 400050, listed under 'Mumbai West', to Thane
C34_Witness ==
  /\ Quoted
  /\ resp[1].data.from.pincode = <<4, 0, 0, 0, 5, 0>>
  /\ detailedRegionMap[resp[1].data.from.pincode].region \in MumbaiSubNames
  /\ resp[1].data.from.region = <<"Mumbai">>
  /\ resp[1].data.note = "(Mumbai-Thane route)"

\* ----------------------------------------------------------------- C35
\* C35: an item's seller never changes after creation: no request (update,
\* buy, relist or repair) changes the seller of an item that exists.
C35_SellerImmutable ==
  [][\A i \in DOMAIN items :
       i \in DOMAIN items' => items'[i].seller = items[i].seller]_vars

\* ----------------------------------------------------------------- C36
\* C36: when sync-all has completed with an empty errors list, every id in
\* any user's boughtItems refers to an item with status sold whose buyer is
\* that user.
C36_SweepRemovesStaleBought ==
  [][(nops' = nops + 1 /\ resp'[1].op = "syncall" /\ resp'[1].errors = 0) =>
       \A u \in DOMAIN users' :
         \A i \in Range(users'[u].boughtItems) :
           /\ i \in DOMAIN items'
           /\ items'[i].status = "sold"
           /\ items'[i].buyer = u]_vars

\* ----------------------------------------------------------------- C37
\* C37: a create request never leaves behind an item whose seller has no
\* user record: when the requester has none, no item is stored and the
\* request fails with NotFound.
C37_NoOrphanItem ==
  [][(nops' = nops + 1 /\ resp'[1].op = "create") =>
       /\ \A i \in DOMAIN items' \ DOMAIN items :
            items'[i].seller \in DOMAIN users'
       /\ (resp'[1].user \notin DOMAIN users /\ resp'[1].result \notin
              {"UploadError", "ValidationError", "TooFewPhotos", "ServerError"})
            => (items' = items /\ resp'[1].result = "NotFound")]_vars

\* ----------------------------------------------------------------- C38
\* C38: the sync-all handler runs only for an authenticated, existing user
\* whose id is in adminIds; every other request is answered with 401, 404 or
\* 403 and changes no item and no user; and with adminIds as written no
\* request reaches the handler.
C38_ThreeAnswers ==
  [][(nops' = nops + 1 /\ resp'[1].op = "syncall") =>
       /\ resp'[1].result = "ok" =>
            resp'[1].user \in DOMAIN users /\ resp'[1].user \in adminIds
       /\ resp'[1].result # "ok" =>
            /\ resp'[1].result \in {"Unauthorized", "NotFound", "Forbidden"}
            /\ UNCHANGED <<items, users>>
       /\ resp'[1].result # "ok"]_vars

\* C38, amended: as above, the answers of the other requests being 401, 404,
\* 403 or, when the lookup of the user rejects, 500.
C38_AdminGate ==
  [][(nops' = nops + 1 /\ resp'[1].op = "syncall") =>
       /\ resp'[1].result = "ok" =>
            resp'[1].user \in DOMAIN users /\ resp'[1].user \in adminIds
       /\ resp'[1].result # "ok" =>
            /\ resp'[1].result \in
                 {"Unauthorized", "NotFound", "Forbidden", "ServerError"}
            /\ UNCHANGED <<items, users>>
       /\ resp'[1].result # "ok"]_vars

\* an existing user who is no administrator has been answered 403 on a
\* database the handler would have changed
C38_Witness ==
  /\ Quiescent
  /\ resp[1].op = "syncall"
  /\ resp[1].result = "Forbidden"
  /\ resp[1].user \in DOMAIN users
  /\ SyncAllResult(items, users).users # users

====
